---- MODULE Spec2Model ----
(***************************************************************************)
(* A model of the document-to-dataset pipeline of the question generator:  *)
(*   - the generation orchestrators (src/src/generator_optimized.py, the   *)
(*     concurrent one, and src/src/generator.py, the sequential one),      *)
(*   - the question validator (src/src/validator.py),                      *)
(*   - the text chunker (src/src/chunker.py).                              *)
(* Each component has its own specification (SpecGen, FairSpecOpt,         *)
(* SpecVal, SpecChunk); the variables of the other components stay idle.   *)
(***************************************************************************)
EXTENDS Integers, Sequences, FiniteSets, TLC

VARIABLES
    \* ---- generation orchestrator ----
    g_mode,        \* "optimized" | "sequential": which generator class runs
    g_nchunks,     \* len(chunks) of the call
    g_total,       \* total_questions of the call
    g_maxc,        \* self.max_concurrent
    g_pc,          \* "idle" | "batch" | "done": position of generate_questions
    g_qpc,         \* questions_per_chunk
    g_batch_data,  \* batch_data: sequence of [idx, need]
    g_bi,          \* loop variable i of the batch loop (chunk loop when sequential)
    g_tasks,       \* the tasks of the batch being awaited (one call when sequential)
    g_sem,         \* the semaphore's free permits
    g_all,         \* all_questions
    g_failed,      \* self.failed_chunks
    g_calls,       \* self.total_api_calls
    g_succ,        \* self.successful_calls
    g_ret,         \* the returned item list
    g_stats,       \* the returned statistics
    g_log,         \* history: per chunk index, the number of service invocations made
                   \* for it (n), the outcome of the latest one (last), the list the
                   \* call returned (items) and its place among the calls that
                   \* returned items (rank)
    g_yield,       \* history: the number of valid items the calls have returned
    \* ---- validator ----
    v_pc,          \* "idle" | "loop" | "done": position of validate_questions
    v_input,       \* history: the list validate_questions was called with
    v_questions,   \* the questions, changed in place by the checks
    v_i,           \* the number of questions the loop has handled
    v_validated,   \* validated
    v_seen,        \* self.seen_questions
    v_stats,       \* self.stats
    v_first,       \* history: what the pass before this one decided and counted
    v_reasons,     \* history: per handled question, "ok" or the counter it was rejected under
    \* ---- chunker ----
    c_pc,          \* "idle" | "call" | "loop" | "done": position of chunk_text
    c_text,        \* text
    c_size,        \* chunk_size
    c_overlap,     \* overlap, as passed
    c_ov,          \* overlap, as the loop uses it
    c_words,       \* words
    c_start,       \* start
    c_chunks,      \* chunks, and at "done" the value returned
    c_ranges,      \* history: start and end of each chunk appended
    \* ---- quality scorer ----
    s_pc,          \* "idle" | "score" | "done": position of score_all_questions
    s_input,       \* history: the list score_all_questions was called with
    s_sort,        \* sort_by_quality
    s_questions,   \* questions, scored in place, and at "done" the value returned
    s_i,           \* the number of questions the loop has scored
    \* ---- chunk_text on a text given by its number of words ----
    w_pc,          \* "call" | "loop" | "done" | "idle"
    w_total,       \* total_words
    w_size,        \* chunk_size
    w_overlap,     \* overlap as passed
    w_ov,          \* overlap in force
    w_start,       \* start
    w_ranges       \* start and end of each chunk returned

gvars == <<g_mode, g_nchunks, g_total, g_maxc, g_pc, g_qpc, g_batch_data, g_bi,
           g_tasks, g_sem, g_all, g_failed, g_calls, g_succ, g_ret, g_stats, g_log,
          g_yield>>

wvars == <<w_pc, w_total, w_size, w_overlap, w_ov, w_start, w_ranges>>

svars == <<s_pc, s_input, s_sort, s_questions, s_i>>

cvars == <<c_pc, c_text, c_size, c_overlap, c_ov, c_words, c_start, c_chunks, c_ranges>>

vvars == <<v_pc, v_input, v_questions, v_i, v_validated, v_seen, v_stats, v_reasons,
           v_first>>

vars == <<g_mode, g_nchunks, g_total, g_maxc, g_pc, g_qpc, g_batch_data, g_bi,
          g_tasks, g_sem, g_all, g_failed, g_calls, g_succ, g_ret, g_stats, g_log,
          g_yield, v_pc, v_input, v_questions, v_i, v_validated, v_seen, v_stats, v_reasons,
          v_first,
          c_pc, c_text, c_size, c_overlap, c_ov, c_words, c_start, c_chunks, c_ranges,
          s_pc, s_input, s_sort, s_questions, s_i,
          w_pc, w_total, w_size, w_overlap, w_ov, w_start, w_ranges>>

\* ---- bounds of the model ----
MaxChunks == 3
MaxTotal == 2
MaxItems == 2
MaxWords == 6
MaxChunkSize == 3
MaxScored == 3

\* The chunk lists and targets the optimized orchestrator's plan is computed for.
MaxPlanChunks == 12

MaxPlanTotal == 60
\* The values of max_concurrent the model runs with (the default is 5).
ConcurrencyLimits == {1, 2}

\* The largest batch: batch_size = max_concurrent * 2.
TaskSlots == 1..4

\* ---- small helpers ----
Min(a, b) == IF a <= b THEN a ELSE b

Max(a, b) == IF a >= b THEN a ELSE b

RECURSIVE Flatten(_)
Flatten(ss) == IF ss = <<>> THEN <<>> ELSE Head(ss) \o Flatten(Tail(ss))

\* Python's s[:n], n of either sign.
PySliceTo(s, n) ==
    IF n >= 0 THEN SubSeq(s, 1, Min(n, Len(s)))
    ELSE SubSeq(s, 1, Max(0, Len(s) + n))

(***************************************************************************)
(* The external service's answers.  A JSON value carries its Python type,  *)
(* since the code tests it with isinstance.                                *)
(***************************************************************************)
PyDict(f) == [type |-> "dict", val |-> f]

PyList(s) == [type |-> "list", elems |-> s]

PyStr(s) == [type |-> "str", chars |-> s]

PyInt(n) == [type |-> "int", int |-> n]

NotJson == [type |-> "invalid"]

RequiredFields == {"question", "options", "answer", "category", "difficulty", "explanation"}

RequiredOptions == {"A", "B", "C", "D"}

FourOptions == [A |-> "first", B |-> "second", C |-> "third", D |-> "fourth"]

FiveOptions == [A |-> "first", B |-> "second", C |-> "third", D |-> "fourth", E |-> "fifth"]

ThreeOptions == [A |-> "first", B |-> "second", C |-> "third"]

\* Items the service may put in its array; c is the chunk index, p the position.
GOk(c, p) ==
    PyDict([question |-> <<c, p>>, options |-> PyDict(FourOptions), answer |-> "A",
            category |-> "Geography", difficulty |-> "Easy", explanation |-> "because"])

GExtra(c, p) ==
    PyDict([question |-> <<c, p>>, options |-> PyDict(FiveOptions), answer |-> "B",
            category |-> "Geography", difficulty |-> "Easy", explanation |-> "because"])

GNoExpl(c, p) ==
    PyDict([question |-> <<c, p>>, options |-> PyDict(FourOptions), answer |-> "A",
            category |-> "Geography", difficulty |-> "Easy"])

GOptList(c, p) ==
    PyDict([question |-> <<c, p>>, options |-> PyList(<<"first", "second", "third", "fourth">>),
            answer |-> "A", category |-> "Geography", difficulty |-> "Easy",
            explanation |-> "because"])

GOptMiss(c, p) ==
    PyDict([question |-> <<c, p>>, options |-> PyDict(ThreeOptions), answer |-> "A",
            category |-> "Geography", difficulty |-> "Easy", explanation |-> "because"])

GBadAns(c, p) ==
    PyDict([question |-> <<c, p>>, options |-> PyDict(FourOptions), answer |-> "a",
            category |-> "Geography", difficulty |-> "Easy", explanation |-> "because"])

\* A response text: its markdown fence and the JSON inside.
\*   fence "none":    the bare text
\*   fence "closed":  ```json \n body \n ```
\*   fence "open":    ```json \n body          (no closing fence line)
\*   fence "oneline": ```body```               (all on one line)
Resp(fence, body) == [fence |-> fence, body |-> body]

Responses(c) ==
    { Resp("none", NotJson),
      Resp("none", PyDict([questions |-> <<>>])),
      Resp("none", PyList(<<>>)),
      Resp("open", PyList(<<GOk(c, 1), GOk(c, 2)>>)),
      Resp("closed", PyList(<<GExtra(c, 1)>>)),
      Resp("none", PyList(<<GOk(c, 1), GNoExpl(c, 2)>>)),
      Resp("none", PyList(<<GOptList(c, 1), GOptMiss(c, 2), GBadAns(c, 3), PyStr("question")>>)),
      Resp("none", PyList(<<GOk(c, 1), PyInt(7)>>)),
      Resp("oneline", PyList(<<GOk(c, 1)>>)) }

\* What one invocation of the service can do: raise, or return a response text.
Outcomes(c) == {[raised |-> TRUE]} \cup {[raised |-> FALSE, resp |-> r] : r \in Responses(c)}

(***************************************************************************)
(* _validate_question and _parse_response (the same in both generators).   *)
(***************************************************************************)
\* `field in question` raises TypeError on a value that is no container.
RaisesOnIn(q) == q.type \in {"int", "invalid"}

\* _validate_question without its last test.
ValidateQuestionNoAnswer(q) ==
    /\ q.type = "dict"
    /\ RequiredFields \subseteq DOMAIN q.val
    /\ q.val.options.type = "dict"
    /\ RequiredOptions \subseteq DOMAIN q.val.options.val

ValidateQuestion(q) ==
    /\ q.type = "dict"     \* a str item: the substring test finds no field name
    /\ RequiredFields \subseteq DOMAIN q.val
    /\ q.val.options.type = "dict"
    /\ RequiredOptions \subseteq DOMAIN q.val.options.val
    /\ q.val.answer \in RequiredOptions

\* The text left after the markdown fence is removed: lines[1:-1] when the last
\* line is the closing fence, lines[1:] otherwise; a one-line fenced text has
\* nothing left.
Unfence(resp) ==
    CASE resp.fence = "none" -> resp.body
      [] resp.fence = "closed" -> resp.body
      [] resp.fence = "open" -> resp.body
      [] OTHER -> NotJson

ParseResponse(resp) ==
    LET questions == Unfence(resp) IN
    IF questions.type = "invalid" THEN <<>>                     \* JSONDecodeError
    ELSE IF questions.type # "list" THEN <<>>
    ELSE IF \E i \in 1..Len(questions.elems) : RaisesOnIn(questions.elems[i]) THEN <<>>
    ELSE SelectSeq(questions.elems, ValidateQuestion)

(***************************************************************************)
(* generate_from_chunk: the retry loop of one call.                        *)
(***************************************************************************)
MaxRetries(mode) == IF mode = "optimized" THEN 2 ELSE 3

\* A faulty variant: one attempt more than max_retries.
MoreAttemptsBroken(attempt, maxr) == attempt < maxr

\* `attempt < max_retries - 1` / the negation of `attempt == max_retries - 1`
MoreAttempts(attempt, maxr) == attempt < maxr - 1

\* A task of the batch: the chunk index, the requested count, where it stands
\* ("waiting" for a permit, "call" awaiting the service, "sleep" in a backoff,
\* "done"), the loop's attempt, the list it returned and (history) the response
\* text that list was parsed from.
NoResp == [fence |-> "-", body |-> NotJson]

NewTask(bd) == [idx |-> bd.idx, need |-> bd.need, st |-> "waiting", attempt |-> 0,
                result |-> <<>>, accepted |-> NoResp]

\* The kind of an invocation's outcome, as the loop sees it.
OutcomeKind(out) ==
    IF out.raised THEN "error"
    ELSE IF ParseResponse(out.resp) # <<>> THEN "items" ELSE "empty"

\* The task after the loop body has handled the outcome of attempt t.attempt.
AfterOutcome(t, out, maxr) ==
    LET kind == OutcomeKind(out) IN
    IF kind = "items"
    THEN [t EXCEPT !.st = "done", !.result = ParseResponse(out.resp), !.accepted = out.resp]
    ELSE IF MoreAttempts(t.attempt, maxr)
         THEN [t EXCEPT !.st = "sleep"]
         ELSE [t EXCEPT !.st = "done", !.result = <<>>]

\* A faulty variant: every attempt that raises is recorded.
FailedAfterEach(failed, t, out, maxr) ==
    IF out.raised THEN Append(failed, t.idx) ELSE failed

\* self.failed_chunks after that outcome: appended only in the except branch of
\* the last attempt.
FailedAfter(failed, t, out, maxr) ==
    IF out.raised /\ ~MoreAttempts(t.attempt, maxr) THEN Append(failed, t.idx) ELSE failed

\* A faulty variant: the increment writes back a count read before the other
\* tasks of the batch ran.
SuccAfterStale(succ, out) == IF OutcomeKind(out) = "items" THEN 1 ELSE succ

\* self.successful_calls += 1, before `return questions`.
SuccAfter(succ, out) == IF OutcomeKind(out) = "items" THEN succ + 1 ELSE succ

\* History: per chunk index the number of answers of the service, the kind of
\* the last one, the list the call returned and, when it returned items, the
\* number of calls that had returned items before it.
LogAfter(log, t, t2, out) ==
    [log EXCEPT ![t.idx] =
        [n |-> @.n + 1, last |-> OutcomeKind(out), items |-> t2.result,
         rank |-> IF OutcomeKind(out) = "items"
                  THEN Cardinality({d \in DOMAIN log : log[d].last = "items"})
                  ELSE -1]]

(***************************************************************************)
(* generate_questions_async (optimized) and generate_questions             *)
(* (sequential).                                                           *)
(***************************************************************************)
QuestionsPerChunk(total, n) == Max(5, Min(10, total \div Max(1, n \div 5)))

\* A faulty variant: every chunk is selected.
ChunksNeededAll(total, n, qpc) == n

\* chunks_needed = min(len(chunks), (total_questions // questions_per_chunk) + 10)
ChunksNeeded(total, n, qpc) == Min(n, (total \div qpc) + 10)

\* batch_data: all_questions is still empty while it is built, so `remaining`
\* is total_questions for every chunk.
BatchData(total, needed, qpc) ==
    IF total <= 0 THEN <<>>
    ELSE [k \in 1..needed |-> [idx |-> k - 1, need |-> Min(qpc, total)]]

BatchSize(maxc) == maxc * 2

\* batch_data[i:i+batch_size]
BatchAt(bd, i, size) == SubSeq(bd, i + 1, Min(i + size, Len(bd)))

\* A faulty variant: the loop never breaks early.
EarlyExitNever(all, total) == FALSE

\* `if len(all_questions) >= total_questions: break`
EarlyExit(all, total) == Len(all) >= total

\* A faulty variant: nothing is cut off.
TrimNone(all, total) == all

\* `all_questions = all_questions[:total_questions]`
Trim(all, total) == PySliceTo(all, total)

\* A faulty variant: the empty list is not told apart.
NoChunksNever(n) == FALSE

\* `if not chunks`
NoChunks(n) == n = 0

ErrorStats == [error |-> "No chunks provided"]

Stats(ret, total, processed, failed, calls, succ) ==
    [total_generated |-> Len(ret), target_count |-> total, chunks_processed |-> processed,
     chunks_failed |-> Len(failed), api_calls_total |-> calls, api_calls_successful |-> succ]

\* A faulty variant: the semaphore never blocks.
PermitFreeAlways(sem) == TRUE

\* A permit is free: Semaphore.acquire does not block.
PermitFree(sem) == sem > 0

\* A faulty variant: the results are taken last task first.
GatheredBackwards(tasks) ==
    Flatten([k \in 1..Len(tasks) |-> tasks[Len(tasks) + 1 - k].result])

\* `results = await asyncio.gather(*tasks)` and the flattening loop: the lists
\* the tasks returned, in the order of the tasks.
Gathered(tasks) == Flatten([k \in 1..Len(tasks) |-> tasks[k].result])

InFlight == Cardinality({k \in DOMAIN g_tasks : g_tasks[k].st \in {"call", "sleep"}})

AllTasksDone == \A k \in DOMAIN g_tasks : g_tasks[k].st = "done"

\* The run ends: trimming and statistics.
\* `len(all_questions)/total_questions*100` in the summary of the sequential
\* generator: ZeroDivisionError for a target of 0.
SummaryRaises(mode, total) == mode = "sequential" /\ total = 0

Finish(all, failed, calls, succ, processed) ==
    IF SummaryRaises(g_mode, g_total)
    THEN /\ g_pc' = "raised"
         /\ g_tasks' = <<>>
         /\ UNCHANGED <<g_ret, g_stats>>
    ELSE /\ g_pc' = "done"
         /\ g_ret' = Trim(all, g_total)
         /\ g_stats' = Stats(Trim(all, g_total), g_total, processed, failed, calls, succ)
         /\ g_tasks' = <<>>

\* generate_questions_async up to its first suspension: the empty-list return,
\* or the reset, the plan and the launch of the first batch.
OptStart ==
    /\ g_pc = "idle" /\ g_mode = "optimized"
    /\ IF NoChunks(g_nchunks)
       THEN /\ g_pc' = "done" /\ g_ret' = <<>> /\ g_stats' = ErrorStats
            /\ UNCHANGED <<g_qpc, g_batch_data, g_bi, g_tasks, g_sem, g_all, g_failed,
                           g_calls, g_succ>>
       ELSE LET qpc == QuestionsPerChunk(g_total, g_nchunks)
                needed == ChunksNeeded(g_total, g_nchunks, qpc)
                bd == BatchData(g_total, needed, qpc)
            IN  /\ g_failed' = <<>> /\ g_calls' = 0 /\ g_succ' = 0
                /\ g_qpc' = qpc
                /\ g_batch_data' = bd
                /\ g_all' = <<>>
                /\ g_sem' = g_maxc
                /\ g_bi' = 0
                /\ IF bd = <<>>
                   THEN Finish(<<>>, <<>>, 0, 0, needed)
                   ELSE /\ g_pc' = "batch"
                        /\ g_tasks' = [k \in 1..Len(BatchAt(bd, 0, BatchSize(g_maxc))) |->
                                          NewTask(BatchAt(bd, 0, BatchSize(g_maxc))[k])]
                        /\ UNCHANGED <<g_ret, g_stats>>
    /\ UNCHANGED <<vvars, cvars, svars, wvars>>
    /\ UNCHANGED <<g_mode, g_nchunks, g_total, g_maxc, g_log, g_yield>>

\* process_one gets a permit and generate_from_chunk runs up to its first await:
\* the call is counted and the first request leaves.
TaskAcquire(k) ==
    /\ g_pc = "batch" /\ g_mode = "optimized"
    /\ k \in DOMAIN g_tasks /\ g_tasks[k].st = "waiting"
    /\ PermitFree(g_sem)
    /\ g_sem' = g_sem - 1
    /\ g_calls' = g_calls + 1
    /\ g_tasks' = [g_tasks EXCEPT ![k].st = "call"]
    /\ UNCHANGED <<vvars, cvars, svars, wvars>>
    /\ UNCHANGED <<g_mode, g_nchunks, g_total, g_maxc, g_pc, g_qpc, g_batch_data, g_bi,
                   g_all, g_failed, g_succ, g_ret, g_stats, g_log, g_yield>>

\* The service answers (or raises) and the loop body handles it, up to the next
\* await (a backoff sleep) or the return, which releases the permit.
TaskResponse(k) ==
    /\ g_pc = "batch" /\ g_mode = "optimized"
    /\ k \in DOMAIN g_tasks /\ g_tasks[k].st = "call"
    /\ \E out \in Outcomes(g_tasks[k].idx) :
         LET t == g_tasks[k]
             t2 == AfterOutcome(t, out, MaxRetries(g_mode))
         IN  /\ g_tasks' = [g_tasks EXCEPT ![k] = t2]
             /\ g_failed' = FailedAfter(g_failed, t, out, MaxRetries(g_mode))
             /\ g_succ' = SuccAfter(g_succ, out)
             /\ g_log' = LogAfter(g_log, t, t2, out)
             /\ g_yield' = g_yield + Len(t2.result)
             /\ g_sem' = IF t2.st = "done" THEN g_sem + 1 ELSE g_sem
    /\ UNCHANGED <<vvars, cvars, svars, wvars>>
    /\ UNCHANGED <<g_mode, g_nchunks, g_total, g_maxc, g_pc, g_qpc, g_batch_data, g_bi,
                   g_all, g_calls, g_ret, g_stats>>

\* The backoff sleep ends; the next attempt's request leaves.
TaskWake(k) ==
    /\ g_pc = "batch" /\ g_mode = "optimized"
    /\ k \in DOMAIN g_tasks /\ g_tasks[k].st = "sleep"
    /\ g_tasks' = [g_tasks EXCEPT ![k].st = "call", ![k].attempt = @ + 1]
    /\ UNCHANGED <<vvars, cvars, svars, wvars>>
    /\ UNCHANGED <<g_mode, g_nchunks, g_total, g_maxc, g_pc, g_qpc, g_batch_data, g_bi,
                   g_sem, g_all, g_failed, g_calls, g_succ, g_ret, g_stats, g_log, g_yield>>

\* gather returns: the results are flattened in task order and appended, then the
\* early exit, the next batch, or the end of the loop.
BatchDone ==
    /\ g_pc = "batch" /\ g_mode = "optimized"
    /\ g_tasks # <<>> /\ AllTasksDone
    /\ LET all == g_all \o Gathered(g_tasks)
           next == g_bi + BatchSize(g_maxc)
       IN  /\ g_all' = all
           /\ IF EarlyExit(all, g_total) \/ next >= Len(g_batch_data)
              THEN /\ Finish(all, g_failed, g_calls, g_succ,
                             ChunksNeeded(g_total, g_nchunks, g_qpc))
                   /\ UNCHANGED g_bi
              ELSE /\ g_bi' = next
                   /\ g_tasks' = [k \in 1..Len(BatchAt(g_batch_data, next, BatchSize(g_maxc))) |->
                                     NewTask(BatchAt(g_batch_data, next, BatchSize(g_maxc))[k])]
                   /\ UNCHANGED <<g_pc, g_ret, g_stats>>
    /\ UNCHANGED <<vvars, cvars, svars, wvars>>
    /\ UNCHANGED <<g_mode, g_nchunks, g_total, g_maxc, g_qpc, g_batch_data, g_sem,
                   g_failed, g_calls, g_succ, g_log, g_yield>>

\* The sequential generator's share for chunk i:
\* min(questions_per_chunk, remaining, max(1, remaining // remaining_chunks)).
SeqQuestionsPerChunk(total, n) == Max(1, total \div n)

SeqNeeded(total, all, qpc, n, i) ==
    LET remaining == total - Len(all)
    IN  Min(Min(qpc, remaining), Max(1, remaining \div (n - i)))

\* The head of the chunk loop for chunk i with all_questions = all and calls
\* counted so far: the break, or generate_from_chunk up to its first request.
SeqLoopHead(i, all, calls, failed, succ) ==
    IF i >= g_nchunks \/ g_total - Len(all) <= 0
    THEN /\ Finish(all, failed, calls, succ, g_nchunks)
         /\ g_calls' = calls
         /\ g_bi' = i
    ELSE /\ g_tasks' = <<[idx |-> i, need |-> SeqNeeded(g_total, all, g_qpc', g_nchunks, i),
                          st |-> "call", attempt |-> 0, result |-> <<>>, accepted |-> NoResp]>>
         /\ g_calls' = calls + 1
         /\ g_bi' = i
         /\ g_pc' = "batch"
         /\ UNCHANGED <<g_ret, g_stats>>

SeqStart ==
    /\ g_pc = "idle" /\ g_mode = "sequential"
    /\ IF NoChunks(g_nchunks)
       THEN /\ g_pc' = "done" /\ g_ret' = <<>> /\ g_stats' = ErrorStats
            /\ UNCHANGED <<g_qpc, g_bi, g_tasks, g_all, g_failed, g_calls, g_succ>>
       ELSE /\ g_failed' = <<>> /\ g_succ' = 0
            /\ g_qpc' = SeqQuestionsPerChunk(g_total, g_nchunks)
            /\ g_all' = <<>>
            /\ SeqLoopHead(0, <<>>, 0, <<>>, 0)
    /\ UNCHANGED <<vvars, cvars, svars, wvars>>
    /\ UNCHANGED <<g_mode, g_nchunks, g_total, g_maxc, g_batch_data, g_sem, g_log, g_yield>>

\* The blocking request returns (or raises) and the loop body handles it: a
\* backoff, or the return of generate_from_chunk, the extend and the next chunk.
SeqResponse ==
    /\ g_pc = "batch" /\ g_mode = "sequential"
    /\ Len(g_tasks) = 1 /\ g_tasks[1].st = "call"
    /\ \E out \in Outcomes(g_tasks[1].idx) :
         LET t == g_tasks[1]
             t2 == AfterOutcome(t, out, MaxRetries(g_mode))
             failed == FailedAfter(g_failed, t, out, MaxRetries(g_mode))
             succ == SuccAfter(g_succ, out)
         IN  /\ g_failed' = failed
             /\ g_succ' = succ
             /\ g_log' = LogAfter(g_log, t, t2, out)
             /\ g_yield' = g_yield + Len(t2.result)
             /\ g_qpc' = g_qpc
             /\ IF t2.st = "done"
                THEN /\ g_all' = g_all \o t2.result
                     /\ SeqLoopHead(g_bi + 1, g_all \o t2.result, g_calls, failed, succ)
                ELSE /\ g_tasks' = <<t2>>
                     /\ UNCHANGED <<g_all, g_calls, g_bi, g_pc, g_ret, g_stats>>
    /\ UNCHANGED <<vvars, cvars, svars, wvars>>
    /\ UNCHANGED <<g_mode, g_nchunks, g_total, g_maxc, g_batch_data, g_sem>>

\* time.sleep(2 ** attempt) ends; the next attempt's request leaves.
SeqWake ==
    /\ g_pc = "batch" /\ g_mode = "sequential"
    /\ Len(g_tasks) = 1 /\ g_tasks[1].st = "sleep"
    /\ g_tasks' = <<[g_tasks[1] EXCEPT !.st = "call", !.attempt = @ + 1]>>
    /\ UNCHANGED <<vvars, cvars, svars, wvars>>
    /\ UNCHANGED <<g_mode, g_nchunks, g_total, g_maxc, g_pc, g_qpc, g_batch_data, g_bi,
                   g_sem, g_all, g_failed, g_calls, g_succ, g_ret, g_stats, g_log, g_yield>>

\* The caller calls the same generator once more, now with an empty chunk
\* list: the locals of the call are new, the object's counters (and the
\* history of its requests) are what the run before left.
CallAgainEmpty ==
    /\ g_pc = "done" /\ g_nchunks > 0
    /\ g_pc' = "idle"
    /\ g_nchunks' = 0
    /\ g_qpc' = 0 /\ g_batch_data' = <<>> /\ g_bi' = 0 /\ g_tasks' = <<>> /\ g_sem' = 0
    /\ g_all' = <<>> /\ g_ret' = <<>> /\ g_stats' = [none |-> TRUE]
    /\ UNCHANGED <<vvars, cvars, svars, wvars>>
    /\ UNCHANGED <<g_mode, g_total, g_maxc, g_failed, g_calls, g_succ, g_log, g_yield>>

(***************************************************************************)
(* The orchestrators' specifications.                                      *)
(***************************************************************************)
FreshStats ==
    [total_input |-> 0, total_output |-> 0, missing_keys |-> 0, invalid_length |-> 0,
     invalid_options |-> 0, invalid_answer |-> 0, duplicates |-> 0, factual_issues |-> 0,
     auto_corrected |-> 0]

\* No pass went before.
NoPass == [none |-> TRUE]

\* QuestionValidator.__init__
ValConstructed ==
    /\ v_pc = "idle"
    /\ v_input = <<>> /\ v_questions = <<>> /\ v_i = 0 /\ v_validated = <<>>
    /\ v_seen = {} /\ v_stats = FreshStats /\ v_reasons = <<>>
    /\ v_first = NoPass

\* Before the call.
ChunkFresh ==
    /\ c_ov = c_overlap /\ c_words = <<>> /\ c_start = 0
    /\ c_chunks = <<>> /\ c_ranges = <<>>

\* The chunker, not in use.
ChunkIdle ==
    /\ c_pc = "idle" /\ c_text = <<>> /\ c_size = 1 /\ c_overlap = 0
    /\ ChunkFresh

\* The quality scorer, not in use.
ScoreIdle ==
    /\ s_pc = "idle" /\ s_input = <<>> /\ s_sort = FALSE /\ s_questions = <<>> /\ s_i = 0

\* chunk_text on word counts, not in use.
WindowsIdle ==
    /\ w_pc = "idle" /\ w_total = 0 /\ w_size = 1 /\ w_overlap = 0
    /\ w_ov = 0 /\ w_start = 0 /\ w_ranges = <<>>

\* The generator as constructed (__init__), before generate_questions is called
\* with g_nchunks chunks and target g_total.
GenConstructed ==
    /\ g_pc = "idle"
    /\ g_qpc = 0 /\ g_batch_data = <<>> /\ g_bi = 0 /\ g_tasks = <<>> /\ g_sem = 0
    /\ g_all = <<>> /\ g_failed = <<>> /\ g_calls = 0 /\ g_succ = 0
    /\ g_ret = <<>> /\ g_stats = [none |-> TRUE]
    /\ g_log = [c \in 0..(g_nchunks - 1) |->
                   [n |-> 0, last |-> "none", items |-> <<>>, rank |-> -1]]
    /\ g_yield = 0

InitGen ==
    /\ g_mode \in {"optimized", "sequential"}
    /\ g_nchunks \in 0..MaxChunks
    /\ g_total \in (-1)..MaxTotal
    /\ g_maxc \in ConcurrencyLimits
    /\ g_mode = "sequential" => g_maxc = 1
    /\ GenConstructed
    /\ ValConstructed
    /\ ChunkIdle
    /\ ScoreIdle
    /\ WindowsIdle

NextGen ==
    \/ OptStart
    \/ \E k \in TaskSlots : TaskAcquire(k)
    \/ \E k \in TaskSlots : TaskResponse(k)
    \/ \E k \in TaskSlots : TaskWake(k)
    \/ BatchDone
    \/ SeqStart
    \/ SeqResponse
    \/ SeqWake
    \/ CallAgainEmpty

SpecGen == InitGen /\ [][NextGen]_vars

NextOpt ==
    \/ OptStart
    \/ \E k \in TaskSlots : TaskAcquire(k)
    \/ \E k \in TaskSlots : TaskResponse(k)
    \/ \E k \in TaskSlots : TaskWake(k)
    \/ BatchDone

\* The optimized generator, asked for the largest target of the model.
InitOpt == InitGen /\ g_mode = "optimized" /\ g_total = MaxTotal

\* The event loop runs a task that can run, and the service answers every
\* request (it returns or raises): no step of the run is put off forever.
FairSpecOpt == InitOpt /\ [][NextOpt]_vars /\ WF_vars(NextOpt)

(***************************************************************************)
(* Claims about the orchestrators.                                         *)
(***************************************************************************)
RangeOf(s) == {s[i] : i \in 1..Len(s)}

RunEnded == g_pc = "done" /\ g_nchunks > 0

\* C1: for total_items >= 1 the returned list has at most total_items items, and
\* exactly total_items when the launched calls returned at least that many valid
\* items in total.
C1_Truncation ==
    (RunEnded /\ g_total >= 1) =>
        /\ Len(g_ret) <= g_total
        /\ (g_yield >= g_total => Len(g_ret) = g_total)
        /\ (g_yield < g_total => Len(g_ret) = g_yield)

C1_Witness == RunEnded /\ g_total >= 1 /\ g_yield > g_total /\ Len(g_ret) = g_total

\* C2: at every instant at most max_concurrent calls are inside
\* generate_from_chunk (awaiting the service or in a backoff sleep), and the
\* tasks that wait for a permit all eventually get one and start their call (a
\* task leaves "waiting" only by taking a permit).
AnyWaiting == \E k \in DOMAIN g_tasks : g_tasks[k].st = "waiting"

C2_BoundedConcurrency ==
    /\ [](InFlight <= g_maxc /\ (g_pc = "batch" => g_sem + InFlight = g_maxc))
    /\ (AnyWaiting ~> ~AnyWaiting)

C2_Witness ==
    /\ g_mode = "optimized"
    /\ InFlight = g_maxc
    /\ \E k \in DOMAIN g_tasks : g_tasks[k].st = "waiting"
    /\ \E k \in DOMAIN g_tasks : g_tasks[k].st = "sleep"

\* C3: one call invokes the service at most max_retries times (2 optimized, 3
\* sequential); a failed attempt is followed by a backoff and another attempt
\* only while attempts remain; the first attempt with items ends the call; an
\* exhausted call returns no item; and no chunk is called twice in a run.
RetryBound == IF g_mode = "optimized" THEN 2 ELSE 3

C3_BoundedRetries ==
    /\ \A c \in DOMAIN g_log : g_log[c].n <= RetryBound
    /\ g_calls = Cardinality({c \in DOMAIN g_log : g_log[c].n >= 1})
                 + Cardinality({k \in DOMAIN g_tasks : g_tasks[k].st = "call"
                                                        /\ g_tasks[k].attempt = 0})
    /\ \A k \in DOMAIN g_tasks :
         LET t == g_tasks[k]
             h == g_log[t.idx]
         IN  /\ t.st = "waiting" => h.n = 0
             /\ t.st = "call" => h.n = t.attempt /\ h.n < RetryBound /\ h.last # "items"
             /\ t.st = "sleep" => h.n = t.attempt + 1 /\ h.n < RetryBound
                                   /\ h.last \in {"error", "empty"}
             /\ t.st = "done" =>
                    \/ h.last = "items" /\ t.result # <<>>
                    \/ h.last \in {"error", "empty"} /\ h.n = RetryBound /\ t.result = <<>>
    /\ \A c \in DOMAIN g_log :
         (g_log[c].last = "items" /\ g_pc = "batch") =>
             \A k \in DOMAIN g_tasks : g_tasks[k].idx = c => g_tasks[k].st = "done"

C3_Witness ==
    /\ g_mode = "optimized"
    /\ \E k \in DOMAIN g_tasks :
         /\ g_tasks[k].st = "done" /\ g_tasks[k].result = <<>>
         /\ g_log[g_tasks[k].idx].n = 2
    /\ \E k \in DOMAIN g_tasks :
         /\ g_tasks[k].st = "done" /\ g_tasks[k].result # <<>>
         /\ g_log[g_tasks[k].idx].n = 1

\* C4: when the run ends, every chunk whose call exhausted its retries without
\* items -- by exceptions or by responses with no valid item -- is in
\* failed_chunks and counted in chunks_failed.
Exhausted(c) == g_log[c].n = MaxRetries(g_mode) /\ g_log[c].last \in {"error", "empty"}

C4_ExhaustedIsFailed ==
    RunEnded =>
        /\ \A c \in DOMAIN g_log : Exhausted(c) => c \in RangeOf(g_failed)
        /\ g_stats.chunks_failed = Cardinality({c \in DOMAIN g_log : Exhausted(c)})

\* C9 (as stated): every returned item has the six fields, options with exactly
\* the keys A-D and an answer in A-D, and a response is accepted only if every
\* item in it satisfies these conditions.
HasFields(q) == q.type = "dict" /\ RequiredFields \subseteq DOMAIN q.val

StrictItem(q) ==
    /\ HasFields(q)
    /\ q.val.options.type = "dict"
    /\ DOMAIN q.val.options.val = RequiredOptions
    /\ q.val.answer \in RequiredOptions

LooseItem(q) ==
    /\ HasFields(q)
    /\ q.val.options.type = "dict"
    /\ RequiredOptions \subseteq DOMAIN q.val.options.val
    /\ q.val.answer \in RequiredOptions

AcceptedTasks == {k \in DOMAIN g_tasks : g_tasks[k].st = "done" /\ g_tasks[k].result # <<>>}

C10_EarlyExit ==
    [][ g_mode = "optimized" =>
          /\ (g_pc # "idle" /\ Len(g_all) >= g_total) => g_calls' = g_calls
          /\ (g_pc = "batch" /\ Len(g_all') >= g_total) =>
                /\ g_pc' = "done"
                /\ g_calls' = g_calls
                /\ g_ret' = PySliceTo(g_all', g_total)
                /\ g_stats'.api_calls_total = g_calls ]_vars

C10_Witness ==
    /\ g_mode = "optimized" /\ RunEnded
    /\ Len(g_all) >= g_total
    /\ g_bi + BatchSize(g_maxc) < Len(g_batch_data)
    /\ g_calls < Len(g_batch_data)

(***************************************************************************)
(* Text.  A str is a sequence of one-character strings, so that len,       *)
(* strip, lower, the regular expressions and difflib are computed as the   *)
(* code computes them.                                                     *)
(***************************************************************************)
\* The characters of the model's texts, in code-point order.
Alphabet ==
    <<" ", "!", "'", ",", "-", ".", "0", "1", "2", "3", "4", "5", "6", "7", "8", "9", ":", "?", "A", "B", "C", "D", "E", "F", "G", "H", "I", "J", "K", "L", "M", "N", "O", "P", "Q", "R", "S", "T", "U", "V", "W", "X", "Y", "Z", "_", "a", "b", "c", "d", "e", "f", "g", "h", "i", "j", "k", "l", "m", "n", "o", "p", "q", "r", "s", "t", "u", "v", "w", "x", "y", "z">>

UpperOf == [a |-> "A", b |-> "B", c |-> "C", d |-> "D", e |-> "E", f |-> "F", g |-> "G", h |-> "H", i |-> "I", j |-> "J", k |-> "K", l |-> "L", m |-> "M", n |-> "N", o |-> "O", p |-> "P", q |-> "Q", r |-> "R", s |-> "S", t |-> "T", u |-> "U", v |-> "V", w |-> "W", x |-> "X", y |-> "Y", z |-> "Z"]

LowerOf == [A |-> "a", B |-> "b", C |-> "c", D |-> "d", E |-> "e", F |-> "f", G |-> "g", H |-> "h", I |-> "i", J |-> "j", K |-> "k", L |-> "l", M |-> "m", N |-> "n", O |-> "o", P |-> "p", Q |-> "q", R |-> "r", S |-> "s", T |-> "t", U |-> "u", V |-> "v", W |-> "w", X |-> "x", Y |-> "y", Z |-> "z"]

Letters == DOMAIN UpperOf \cup DOMAIN LowerOf

Digits == {"0", "1", "2", "3", "4", "5", "6", "7", "8", "9"}

IsSpace(c) == c = " "

\* \w of the re module: letters, digits and the underscore.
IsWord(c) == c \in Letters \/ c \in Digits \/ c = "_"

IsWordOrSpace(c) == IsWord(c) \/ IsSpace(c)

Lower(c) == IF c \in DOMAIN LowerOf THEN LowerOf[c] ELSE c

Upper(c) == IF c \in DOMAIN UpperOf THEN UpperOf[c] ELSE c

StrLower(s) == [i \in 1..Len(s) |-> Lower(s[i])]

StrUpper(s) == [i \in 1..Len(s) |-> Upper(s[i])]

RECURSIVE LStrip(_)
LStrip(s) == IF s # <<>> /\ IsSpace(Head(s)) THEN LStrip(Tail(s)) ELSE s

RECURSIVE RStrip(_)
RStrip(s) == IF s # <<>> /\ IsSpace(s[Len(s)]) THEN RStrip(SubSeq(s, 1, Len(s) - 1)) ELSE s

\* str.strip()
Strip(s) == RStrip(LStrip(s))

\* re.sub(r'\s+', ' ', s): every run of whitespace becomes one space.
CollapseSpaces(s) ==
    SelectSeq([i \in 1..Len(s) |->
                  IF ~IsSpace(s[i]) THEN s[i]
                  ELSE IF i > 1 /\ IsSpace(s[i - 1]) THEN "" ELSE " "],
              LAMBDA c : c # "")

\* str.title(): a letter that follows a letter is lowered, any other letter raised.
RECURSIVE TitleFrom(_, _)
TitleFrom(s, afterLetter) ==
    IF s = <<>> THEN <<>>
    ELSE <<IF Head(s) \in Letters
           THEN (IF afterLetter THEN Lower(Head(s)) ELSE Upper(Head(s)))
           ELSE Head(s)>> \o TitleFrom(Tail(s), Head(s) \in Letters)

Title(s) == TitleFrom(s, FALSE)

\* The code point order of two characters, and of two strs (Python's <).
Code(c) == CHOOSE i \in 1..Len(Alphabet) : Alphabet[i] = c

RECURSIVE StrLess(_, _)
StrLess(s, t) ==
    IF t = <<>> THEN FALSE
    ELSE IF s = <<>> THEN TRUE
    ELSE IF Head(s) = Head(t) THEN StrLess(Tail(s), Tail(t))
    ELSE Code(Head(s)) < Code(Head(t))

(***************************************************************************)
(* difflib.SequenceMatcher(None, a, b).ratio(): 2 * matches / (len(a) +    *)
(* len(b)), the matches being the longest common block, then recursively   *)
(* those left and right of it.  When b has 200 characters or more, the     *)
(* characters that make up more than 1% of it (plus one) start no block:   *)
(* a block is found on the other characters and then grown over equal      *)
(* neighbours.                                                             *)
(***************************************************************************)
\* The autojunk heuristic of __chain_b: the popular characters of b.
Popular(b) ==
    IF Len(b) < 200 THEN {}
    ELSE {c \in {b[j] : j \in 1..Len(b)} :
            Cardinality({j \in 1..Len(b) : b[j] = c}) > Len(b) \div 100 + 1}

\* a[i] and b[j] are paired by b2j.
Paired(a, b, i, j, popular) == a[i] = b[j] /\ b[j] \notin popular

RECURSIVE CommonRun(_, _, _, _, _, _, _)
CommonRun(a, b, i, j, ahi, bhi, popular) ==
    IF i > ahi \/ j > bhi THEN 0
    ELSE IF ~Paired(a, b, i, j, popular) THEN 0
    ELSE 1 + CommonRun(a, b, i + 1, j + 1, ahi, bhi, popular)

\* The number of equal characters next to a block, going by `by` from (i, j),
\* at most limit.
Grown(a, b, i, j, by, limit) ==
    CHOOSE k \in 0..limit :
        /\ \A t \in 1..k : a[i + by * t] = b[j + by * t]
        /\ (k = limit \/ a[i + by * (k + 1)] # b[j + by * (k + 1)])

\* The first part of find_longest_match on a[alo..ahi], b[blo..bhi]: the
\* longest block of paired characters, of those the one starting earliest in
\* a, of those the one starting earliest in b.
PairedMatch(a, b, alo, ahi, blo, bhi, popular) ==
    LET starts == {p \in (alo..ahi) \X (blo..bhi) :
                     /\ Paired(a, b, p[1], p[2], popular)
                     /\ (p[1] = alo \/ p[2] = blo
                           \/ ~Paired(a, b, p[1] - 1, p[2] - 1, popular))}
        runs == {<<CommonRun(a, b, p[1], p[2], ahi, bhi, popular), p[1], p[2]>> : p \in starts}
    IN  IF runs = {} THEN <<0, alo, blo>>
        ELSE CHOOSE r \in runs :
               \A q \in runs :
                  \/ r[1] > q[1]
                  \/ r[1] = q[1] /\ r[2] < q[2]
                  \/ r[1] = q[1] /\ r[2] = q[2] /\ r[3] <= q[3]

\* The block grown to the left by `left` characters.
GrownLeft(best, left) == <<best[1] + left, best[2] - left, best[3] - left>>

\* The block grown to the right over the equal characters that follow it.
GrownRight(a, b, best, ahi, bhi) ==
    <<best[1] + Grown(a, b, best[2] + best[1] - 1, best[3] + best[1] - 1, 1,
                      Min(ahi - (best[2] + best[1] - 1), bhi - (best[3] + best[1] - 1))),
      best[2], best[3]>>

\* The second part: the block is grown over the equal characters before it.
GrownMatch(a, b, best, alo, ahi, blo, bhi) ==
    GrownRight(a, b,
               GrownLeft(best, Grown(a, b, best[2], best[3], -1,
                                     Min(best[2] - alo, best[3] - blo))),
               ahi, bhi)

\* find_longest_match.  With no popular character the block found by the
\* first part has no equal characters next to it, and the second part leaves
\* it as it is.
LongestMatch(a, b, alo, ahi, blo, bhi) ==
    IF Len(b) < 200
    THEN PairedMatch(a, b, alo, ahi, blo, bhi, {})
    ELSE GrownMatch(a, b, PairedMatch(a, b, alo, ahi, blo, bhi, Popular(b)),
                    alo, ahi, blo, bhi)

RECURSIVE MatchCount(_, _, _, _, _, _)
MatchCount(a, b, alo, ahi, blo, bhi) ==
    IF alo > ahi \/ blo > bhi THEN 0
    ELSE LET m == LongestMatch(a, b, alo, ahi, blo, bhi) IN
         IF m[1] = 0 THEN 0
         ELSE m[1] + MatchCount(a, b, alo, m[2] - 1, blo, m[3] - 1)
                   + MatchCount(a, b, m[2] + m[1], ahi, m[3] + m[1], bhi)

Matches(a, b) == MatchCount(a, b, 1, Len(a), 1, Len(b))

\* ratio() >= num/den  (ratio() is 1.0 when both are empty)
RatioAtLeast(a, b, num, den) ==
    IF Len(a) + Len(b) = 0 THEN TRUE
    ELSE 2 * Matches(a, b) * den >= num * (Len(a) + Len(b))

\* ratio(a1, b) < ratio(a2, b), both defined
RatioLess(a1, a2, b) ==
    Matches(a1, b) * (Len(a2) + Len(b)) < Matches(a2, b) * (Len(a1) + Len(b))

(***************************************************************************)
(* The validator (src/src/validator.py).                                   *)
(***************************************************************************)
MinQuestionLen == 20

MaxQuestionLen == 300

\* The order in which a dict of options built A, B, C, D (, E) is iterated.
KeyOrder == <<"A", "B", "C", "D", "E">>

AnswerKeys == {<<"A">>, <<"B">>, <<"C">>, <<"D">>}

Bump(stats, key) == [stats EXCEPT ![key] = @ + 1]

\* _normalize_text: lower(), re.sub(r'[^\w\s]', '', .), re.sub(r'\s+', ' ', .).strip()
NormalizeText(text) == Strip(CollapseSpaces(SelectSeq(StrLower(text), IsWordOrSpace)))

\* A faulty variant: the text is not recorded.
SeenAfterForgetful(seen, normalized) == seen

\* self.seen_questions.add(normalized)
SeenAfter(seen, normalized) == seen \cup {normalized}

\* A faulty variant: the text of a duplicate is recorded too.
IsDuplicateRecording(question_text, seen) ==
    LET normalized == NormalizeText(question_text) IN
    IF normalized \in seen THEN [dup |-> TRUE, seen |-> seen]
    ELSE IF \E seen_q \in seen : RatioAtLeast(normalized, seen_q, 85, 100)
         THEN [dup |-> TRUE, seen |-> seen \cup {normalized}]
         ELSE [dup |-> FALSE, seen |-> SeenAfter(seen, normalized)]

\* _is_duplicate: the verdict and the corpus afterwards.
IsDuplicate(question_text, seen) ==
    LET normalized == NormalizeText(question_text) IN
    IF normalized \in seen THEN [dup |-> TRUE, seen |-> seen]
    ELSE IF \E seen_q \in seen : RatioAtLeast(normalized, seen_q, 85, 100)
         THEN [dup |-> TRUE, seen |-> seen]
         ELSE [dup |-> FALSE, seen |-> SeenAfter(seen, normalized)]

\* _validate_schema
ValidateSchema(q) == RequiredFields \subseteq DOMAIN q

\* A faulty variant: questions of exactly 20 and 300 characters are refused too.
ValidateTextLengthStrict(q) ==
    Len(q.question) > MinQuestionLen /\ Len(q.question) < MaxQuestionLen

\* _validate_text_length
ValidateTextLength(q) ==
    ~(Len(q.question) < MinQuestionLen \/ Len(q.question) > MaxQuestionLen)

\* `not options[key] or not str(options[key]).strip()`
EmptyOption(v) == v = <<>> \/ Strip(v) = <<>>

\* A list of other than four options.
BadOptionList(options) == options.type = "list" /\ Len(options.elems) # 4

\* the list of four turned into the dict A, B, C, D
AsOptionDict(options) ==
    IF options.type = "list" /\ Len(options.elems) = 4
    THEN PyDict([A |-> options.elems[1], B |-> options.elems[2], C |-> options.elems[3],
                 D |-> options.elems[4]])
    ELSE options

\* A faulty variant: equal values go unnoticed.
HasDuplicateValuesNever(opts) == FALSE

\* `len(option_values) != len(set(option_values))`
HasDuplicateValues(opts) == \E k1, k2 \in DOMAIN opts : k1 # k2 /\ opts[k1] = opts[k2]

\* _validate_and_fix_options: the verdict and the question afterwards.
ValidateAndFixOptions(q) ==
    LET options == AsOptionDict(q.options)
        q2 == [q EXCEPT !.options = options]
    IN  IF BadOptionList(q.options) THEN [ok |-> FALSE, q |-> q]
        ELSE IF options.type # "dict" THEN [ok |-> FALSE, q |-> q2]
        ELSE IF ~(RequiredOptions \subseteq DOMAIN options.val) THEN [ok |-> FALSE, q |-> q2]
        ELSE IF \E key \in RequiredOptions : EmptyOption(options.val[key])
             THEN [ok |-> FALSE, q |-> q2]
        ELSE IF HasDuplicateValues(options.val) THEN [ok |-> FALSE, q |-> q2]
        ELSE [ok |-> TRUE, q |-> q2]

\* The keys of an options dict in iteration order.
KeysInOrder(opts) == SelectSeq(KeyOrder, LAMBDA k : k \in DOMAIN opts)

\* The first key of the dict, in iteration order, that is one of `keys`
\* ("" when none is).
FirstKey(opts, keys) ==
    LET ks == SelectSeq(KeysInOrder(opts), LAMBDA k : k \in keys)
    IN  IF ks = <<>> THEN "" ELSE Head(ks)

\* difflib.get_close_matches(answer, values, n=1, cutoff=0.8): the values whose
\* ratio with the answer reaches the cutoff, and of those the largest by
\* (ratio, value).
CloseMatches(answer, opts) ==
    {opts[k] : k \in {k \in DOMAIN opts : RatioAtLeast(opts[k], answer, 8, 10)}}

BestMatch(answer, opts) ==
    CHOOSE x \in CloseMatches(answer, opts) :
        \A y \in CloseMatches(answer, opts) :
            \/ y = x
            \/ RatioLess(y, x, answer)
            \/ ~RatioLess(x, y, answer) /\ StrLess(y, x)

\* A faulty variant: the texts are compared as they are.
SameTextStrict(value, answer) == value = answer

\* `str(value).strip().lower() == answer.strip().lower()`
SameText(value, answer) == StrLower(Strip(value)) = StrLower(Strip(answer))

\* _validate_and_fix_answer: the verdict, the question afterwards and whether
\* the answer was auto-corrected.
ValidateAndFixAnswer(q) ==
    LET answer == q.answer
        opts == q.options.val
        answer_clean == StrUpper(Strip(answer))
        exact == FirstKey(opts, {k \in DOMAIN opts : SameText(opts[k], answer)})
    IN  IF answer_clean \in AnswerKeys
        THEN [ok |-> TRUE, q |-> [q EXCEPT !.answer = answer_clean], corrected |-> FALSE]
        ELSE IF exact # ""
        THEN [ok |-> TRUE, q |-> [q EXCEPT !.answer = <<exact>>], corrected |-> TRUE]
        ELSE IF CloseMatches(answer, opts) # {}
        THEN [ok |-> TRUE,
              q |-> [q EXCEPT !.answer =
                        <<FirstKey(opts, {k \in DOMAIN opts :
                                            opts[k] = BestMatch(answer, opts)})>>],
              corrected |-> TRUE]
        ELSE [ok |-> FALSE, q |-> q, corrected |-> FALSE]

\* _check_factual_issues
CheckFactualIssues(q) ==
    LET q_text == q.question
        packed == SelectSeq(Strip(q_text), LAMBDA c : c # " ")
    IN  /\ ~(q_text # <<>> /\ Head(q_text) \in {"?", "."})
        /\ ~(packed # <<>> /\ \A i \in 1..Len(packed) : packed[i] \in Digits)
        /\ \E i \in 1..Len(q_text) : q_text[i] \in Letters

\* _normalize_category
NormalizeCategory(q) ==
    IF q.category # <<>> THEN [q EXCEPT !.category = Title(Strip(q.category))] ELSE q

ValidDifficulties ==
    (<<"e", "a", "s", "y">> :> <<"E", "a", "s", "y">>) @@
    (<<"m", "e", "d", "i", "u", "m">> :> <<"M", "e", "d", "i", "u", "m">>) @@
    (<<"h", "a", "r", "d">> :> <<"H", "a", "r", "d">>) @@
    (<<"i", "n", "t", "e", "r", "m", "e", "d", "i", "a", "t", "e">> :> <<"M", "e", "d", "i", "u", "m">>) @@
    (<<"d", "i", "f", "f", "i", "c", "u", "l", "t">> :> <<"H", "a", "r", "d">>) @@
    (<<"s", "i", "m", "p", "l", "e">> :> <<"E", "a", "s", "y">>) @@
    (<<"b", "a", "s", "i", "c">> :> <<"E", "a", "s", "y">>) @@
    (<<"a", "d", "v", "a", "n", "c", "e", "d">> :> <<"H", "a", "r", "d">>) @@
    (<<"c", "h", "a", "l", "l", "e", "n", "g", "i", "n", "g">> :> <<"H", "a", "r", "d">>)

Medium == <<"M", "e", "d", "i", "u", "m">>

\* A faulty variant: an unrecognised difficulty is left as it is.
NormalizeDifficultyKnown(q) ==
    LET difficulty == StrLower(Strip(q.difficulty)) IN
    IF difficulty \in DOMAIN ValidDifficulties
    THEN [q EXCEPT !.difficulty = ValidDifficulties[difficulty]]
    ELSE q

\* _normalize_difficulty
NormalizeDifficulty(q) ==
    LET difficulty == StrLower(Strip(q.difficulty)) IN
    IF difficulty \in DOMAIN ValidDifficulties
    THEN [q EXCEPT !.difficulty = ValidDifficulties[difficulty]]
    ELSE [q EXCEPT !.difficulty = Medium]

\* A faulty variant: a list of other than four options is rejected uncounted.
OptionsRejectedLossy(stats, options) ==
    IF BadOptionList(options) THEN stats ELSE Bump(stats, "invalid_options")

\* self.stats["invalid_options"] += 1, on each rejecting path of
\* _validate_and_fix_options.
OptionsRejected(stats, options) == Bump(stats, "invalid_options")

\* validate_question: the verdict, the question as the checks leave it, the
\* corpus and the counters afterwards, and (history) the reason of a rejection.
ValidateOne(q, seen, stats) ==
    IF ~ValidateSchema(q)
    THEN [ok |-> FALSE, q |-> q, seen |-> seen, stats |-> Bump(stats, "missing_keys"),
          reason |-> "missing_keys"]
    ELSE IF ~ValidateTextLength(q)
    THEN [ok |-> FALSE, q |-> q, seen |-> seen, stats |-> Bump(stats, "invalid_length"),
          reason |-> "invalid_length"]
    ELSE LET o == ValidateAndFixOptions(q) IN
    IF ~o.ok
    THEN [ok |-> FALSE, q |-> o.q, seen |-> seen,
          stats |-> OptionsRejected(stats, q.options),
          reason |-> "invalid_options"]
    ELSE LET a == ValidateAndFixAnswer(o.q)
             stats_a == IF a.corrected THEN Bump(stats, "auto_corrected") ELSE stats
         IN
    IF ~a.ok
    THEN [ok |-> FALSE, q |-> a.q, seen |-> seen, stats |-> Bump(stats_a, "invalid_answer"),
          reason |-> "invalid_answer"]
    ELSE IF ~CheckFactualIssues(a.q)
    THEN [ok |-> FALSE, q |-> a.q, seen |-> seen, stats |-> Bump(stats_a, "factual_issues"),
          reason |-> "factual_issues"]
    ELSE LET d == IsDuplicate(a.q.question, seen) IN
    IF d.dup
    THEN [ok |-> FALSE, q |-> a.q, seen |-> d.seen, stats |-> Bump(stats_a, "duplicates"),
          reason |-> "duplicates"]
    ELSE [ok |-> TRUE, q |-> NormalizeDifficulty(NormalizeCategory(a.q)), seen |-> d.seen,
          stats |-> stats_a, reason |-> "ok"]

(***************************************************************************)
(* The questions the validator is run on.                                  *)
(***************************************************************************)
QBase == <<"W", "h", "a", "t", " ", "i", "s", " ", "t", "h", "e", " ", "c", "a", "p", "i", "t", "a", "l", " ", "o", "f", " ", "F", "r", "a", "n", "c", "e", "?">>

QCase == <<"w", "h", "a", "t", " ", "i", "s", " ", "t", "h", "e", " ", "c", "a", "p", "i", "t", "a", "l", " ", "o", "f", " ", "f", "r", "a", "n", "c", "e">>

QNear == <<"W", "h", "a", "t", " ", "i", "s", " ", "t", "h", "e", " ", "c", "a", "p", "i", "t", "a", "l", " ", "o", "f", " ", "F", "r", "a", "n", "s", "e", "?">>

QOther == <<"W", "h", "i", "c", "h", " ", "r", "i", "v", "e", "r", " ", "f", "l", "o", "w", "s", " ", "t", "h", "r", "o", "u", "g", "h", " ", "C", "a", "i", "r", "o", "?">>

QShort == <<"T", "o", "o", " ", "s", "h", "o", "r", "t">>

QDot == <<".", "W", "h", "a", "t", " ", "i", "s", " ", "t", "h", "e", " ", "c", "a", "p", "i", "t", "a", "l", " ", "o", "f", " ", "F", "r", "a", "n", "c", "e">>

QDigits == <<"1", "2", "3", "4", " ", "5", "6", "7", "8", " ", "9", "0", "1", "2", " ", "3", "4", "5", "6", " ", "7", "8", "9", "0">>

QNoLetters == <<"1", "2", ":", "3", "4", " ", "-", " ", "5", "6", ":", "7", "8", " ", "-", " ", "9", "0", ":", "1", "2", " ", "?">>

\* A question of MaxQuestionLen + 1 characters.
QLong == [i \in 1..(MaxQuestionLen + 1) |-> IF i % 2 = 1 THEN "a" ELSE " "]

Paris == <<"P", "a", "r", "i", "s">>

London == <<"L", "o", "n", "d", "o", "n">>

Berlin == <<"B", "e", "r", "l", "i", "n">>

Rome == <<"R", "o", "m", "e">>

Madrid == <<"M", "a", "d", "r", "i", "d">>

Cities == PyDict([A |-> Paris, B |-> London, C |-> Berlin, D |-> Rome])

\* A well-formed item asking `question`.
VItem(question) ==
    [question |-> question, options |-> Cities, answer |-> <<"A">>,
     category |-> <<"G", "e", "o", "g", "r", "a", "p", "h", "y">>, difficulty |-> <<"E", "a", "s", "y">>, explanation |-> <<"P", "a", "r", "i", "s", " ", "i", "s", " ", "t", "h", "e", " ", "c", "a", "p", "i", "t", "a", "l", ".">>]

VNoExplanation ==
    [question |-> QBase, options |-> Cities, answer |-> <<"A">>,
     category |-> <<"G", "e", "o", "g", "r", "a", "p", "h", "y">>, difficulty |-> <<"E", "a", "s", "y">>]

ValPalette ==
    { VItem(QBase), VItem(QCase), VItem(QNear), VItem(QOther),
      VNoExplanation,
      VItem(QShort), VItem(QLong), VItem(QDot), VItem(QDigits), VItem(QNoLetters),
      [VItem(QBase) EXCEPT !.options = PyList(<<Paris, London, Berlin, Rome>>)],
      [VItem(QBase) EXCEPT !.options = PyList(<<Paris, London, Berlin>>)],
      [VItem(QBase) EXCEPT !.options = PyStr(Paris)],
      [VItem(QBase) EXCEPT !.options = PyDict([A |-> Paris, B |-> London, C |-> Berlin])],
      [VItem(QBase) EXCEPT !.options = PyDict([A |-> Paris, B |-> <<" ">>, C |-> Berlin, D |-> Rome])],
      [VItem(QBase) EXCEPT !.options = PyDict([A |-> Paris, B |-> Paris, C |-> Rome, D |-> Berlin])],
      [VItem(QBase) EXCEPT !.options = PyDict([A |-> Paris, B |-> London, C |-> Berlin, D |-> Rome,
                                               E |-> Madrid])],
      [VItem(QBase) EXCEPT !.options = PyDict([A |-> Paris, B |-> London, C |-> Berlin, D |-> Rome,
                                               E |-> Madrid]),
                           !.answer = Madrid],
      [VItem(QBase) EXCEPT !.answer = <<"b">>],
      [VItem(QBase) EXCEPT !.answer = <<" ", "b", "e", "r", "l", "i", "n", " ">>],
      [VItem(QBase) EXCEPT !.answer = <<"L", "o", "n", "d", "n">>],
      [VItem(QBase) EXCEPT !.answer = <<"T", "o", "k", "y", "o">>],
      [VItem(QOther) EXCEPT !.category = <<" ", "w", "o", "r", "l", "d", " ", "h", "i", "s", "t", "o", "r", "y", " ">>, !.difficulty = <<" ", "B", "A", "S", "I", "C", " ">>],
      [VItem(QOther) EXCEPT !.difficulty = <<"u", "n", "k", "n", "o", "w", "n">>],
      [VItem(QShort) EXCEPT !.options = PyStr(Paris), !.answer = <<"T", "o", "k", "y", "o">>] }

\* The lists validate_questions is called with.
ValInputs == UNION {[1..n -> ValPalette] : n \in 0..MaxItems}


(***************************************************************************)
(* validate_questions: one pass of a freshly constructed validator.        *)
(***************************************************************************)
\* The head of validate_questions: total_input is set and the corpus cleared.
ValStartWith(inputs) ==
    /\ v_pc = "idle"
    /\ \E questions \in inputs :
         /\ v_input' = questions
         /\ v_questions' = questions
         /\ v_stats' = [v_stats EXCEPT !.total_input = Len(questions)]
    /\ v_seen' = {}
    /\ v_validated' = <<>>
    /\ v_i' = 0
    /\ v_reasons' = <<>>
    /\ v_pc' = "loop"
    /\ UNCHANGED v_first
    /\ UNCHANGED <<gvars, cvars, svars, wvars>>

ValStart == ValStartWith(ValInputs)

\* One turn of `for question in questions`: validate_question on the next
\* question, which it changes in place, and the append when it is valid.
ValStep ==
    /\ v_pc = "loop" /\ v_i < Len(v_questions)
    /\ \E r \in {ValidateOne(v_questions[v_i + 1], v_seen, v_stats)} :
         /\ v_questions' = [v_questions EXCEPT ![v_i + 1] = r.q]
         /\ v_validated' = IF r.ok THEN Append(v_validated, r.q) ELSE v_validated
         /\ v_seen' = r.seen
         /\ v_stats' = r.stats
         /\ v_reasons' = Append(v_reasons, r.reason)
    /\ v_i' = v_i + 1
    /\ UNCHANGED <<v_pc, v_input, v_first>>
    /\ UNCHANGED <<gvars, cvars, svars, wvars>>

\* The loop is over: total_output is set and the report written.
ValFinish ==
    /\ v_pc = "loop" /\ v_i = Len(v_questions)
    /\ v_stats' = [v_stats EXCEPT !.total_output = Len(v_validated)]
    /\ v_pc' = "done"
    /\ UNCHANGED <<v_input, v_questions, v_i, v_validated, v_seen, v_reasons, v_first>>
    /\ UNCHANGED <<gvars, cvars, svars, wvars>>

\* `validator = QuestionValidator(report_path)`: the counters of a new validator,
\* whatever those of the one before.
StatsOfNewValidator(stats) == FreshStats

\* The module-level validate_questions is called a second time: a new
\* validator runs validate_questions on the list of the first call, either a
\* copy made before that call or the very list, whose questions the first call
\* has changed in place.
ValAgain ==
    /\ v_pc = "done" /\ v_first = NoPass
    /\ v_first' = [reasons |-> v_reasons, stats |-> v_stats, kept |-> Len(v_validated)]
    /\ \E questions \in {v_input, v_questions} :
         /\ v_input' = questions
         /\ v_questions' = questions
         /\ v_stats' = [StatsOfNewValidator(v_stats) EXCEPT !.total_input = Len(questions)]
    /\ v_seen' = {}
    /\ v_validated' = <<>>
    /\ v_i' = 0
    /\ v_reasons' = <<>>
    /\ v_pc' = "loop"
    /\ UNCHANGED <<gvars, cvars, svars, wvars>>

\* The generator, not in use.
GenIdle ==
    /\ g_mode = "optimized" /\ g_nchunks = 0 /\ g_total = 0 /\ g_maxc = 1
    /\ GenConstructed

InitVal == ValConstructed /\ GenIdle /\ ChunkIdle /\ ScoreIdle /\ WindowsIdle

NextVal == ValStart \/ ValStep \/ ValFinish

SpecVal == InitVal /\ [][NextVal]_vars

\* validate_questions is called again on the validator of the first call, whose
\* counters nothing resets: with the copy made before that call, with the very
\* list, or with the list that call returned.
ValSameInstance ==
    /\ v_pc = "done" /\ v_first = NoPass
    /\ v_first' = [reasons |-> v_reasons, stats |-> v_stats, kept |-> Len(v_validated)]
    /\ \E questions \in {v_input, v_questions, v_validated} :
         /\ v_input' = questions
         /\ v_questions' = questions
         /\ v_stats' = [v_stats EXCEPT !.total_input = Len(questions)]
    /\ v_seen' = {}
    /\ v_validated' = <<>>
    /\ v_i' = 0
    /\ v_reasons' = <<>>
    /\ v_pc' = "loop"
    /\ UNCHANGED <<gvars, cvars, svars, wvars>>

\* The list validate_questions returned is passed to a new validator.
ValOwnOutput ==
    /\ v_pc = "done" /\ v_first = NoPass
    /\ v_first' = [reasons |-> v_reasons, stats |-> v_stats, kept |-> Len(v_validated)]
    /\ v_input' = v_validated
    /\ v_questions' = v_validated
    /\ v_stats' = [StatsOfNewValidator(v_stats) EXCEPT !.total_input = Len(v_validated)]
    /\ v_seen' = {}
    /\ v_validated' = <<>>
    /\ v_i' = 0
    /\ v_reasons' = <<>>
    /\ v_pc' = "loop"
    /\ UNCHANGED <<gvars, cvars, svars, wvars>>

NextValOwnOutput == ValStart \/ ValStep \/ ValFinish \/ ValOwnOutput

SpecValOwnOutput == InitVal /\ [][NextValOwnOutput]_vars

NextValSameInstance == ValStart \/ ValStep \/ ValFinish \/ ValSameInstance

SpecValSameInstance == InitVal /\ [][NextValSameInstance]_vars

NextValTwice == ValStart \/ ValStep \/ ValFinish \/ ValAgain

SpecValTwice == InitVal /\ [][NextValTwice]_vars

(***************************************************************************)
(* chunk_text.  A text is a sequence of characters; a word is a maximal    *)
(* run of characters that are not white space.                             *)
(***************************************************************************)
WordChars == <<"a", "b", "c", "d", "e", "f", "g", "h", "i", "j">>

\* ' '.join(words) and its variants with other separators.
RECURSIVE JoinWith(_, _)
JoinWith(ws, sep) ==
    IF ws = <<>> THEN <<>>
    ELSE IF Len(ws) = 1 THEN ws[1]
    ELSE ws[1] \o sep \o JoinWith(Tail(ws), sep)

Join(ws) == JoinWith(ws, <<" ">>)

\* str.split() without arguments.
RECURSIVE Split(_)
Split(text) ==
    IF text = <<>> THEN <<>>
    ELSE IF IsSpace(Head(text)) THEN Split(Tail(text))
    ELSE LET n == CHOOSE n \in 1..Len(text) :
                     /\ \A i \in 1..n : ~IsSpace(text[i])
                     /\ (n = Len(text) \/ IsSpace(text[n + 1]))
         IN  <<SubSeq(text, 1, n)>> \o Split(SubSeq(text, n + 1, Len(text)))

\* The n-word text a b c ..., single-spaced, padded with white space at both
\* ends, or double-spaced.
TextOf(n, layout) ==
    LET ws == [i \in 1..n |-> <<WordChars[i]>>] IN
    CASE layout = "plain"  -> Join(ws)
      [] layout = "padded" -> <<" ">> \o Join(ws) \o <<" ">>
      [] layout = "double" -> JoinWith(ws, <<" ", " ">>)

Texts == {TextOf(n, layout) : n \in 0..MaxWords, layout \in {"plain", "padded", "double"}}

ChunkSizes == 1..MaxChunkSize

Overlaps == (-1)..(MaxChunkSize + 1)

\* A faulty variant: the overlap is a quarter of the chunk whatever was passed.
EffectiveOverlapQuarter(chunk_size, overlap) == chunk_size \div 4

\* The overlap in force after the check of lines 40-42.
EffectiveOverlap(chunk_size, overlap) ==
    IF overlap >= chunk_size THEN chunk_size \div 4 ELSE overlap

\* A faulty variant: the window moves on by a whole chunk.
StepNoOverlap(chunk_size, overlap) == chunk_size

\* start += chunk_size - overlap
Step(chunk_size, overlap) == chunk_size - overlap

\* words[start:end] for 0 <= start
PySlice(ws, start, end) == SubSeq(ws, start + 1, Min(end, Len(ws)))

\* A faulty variant: only the empty text is taken for blank.
BlankEmptyOnly(text) == text = <<>>

\* not text or not text.strip()
Blank(text) == text = <<>> \/ Strip(text) = <<>>

\* The head of chunk_text, down to the loop.
ChunkEnter ==
    /\ c_pc = "call"
    /\ IF Blank(c_text)
       THEN /\ c_chunks' = <<>>
            /\ c_pc' = "done"
            /\ UNCHANGED <<c_ov, c_words>>
       ELSE /\ c_ov' = EffectiveOverlap(c_size, c_overlap)
            /\ c_words' = Split(c_text)
            /\ IF Len(Split(c_text)) <= c_size
               THEN c_chunks' = <<c_text>> /\ c_pc' = "done"
               ELSE c_chunks' = <<>> /\ c_pc' = "loop"
    /\ UNCHANGED <<c_text, c_size, c_overlap, c_start, c_ranges>>
    /\ UNCHANGED <<gvars, vvars, svars, wvars>>

\* One turn of `while start < total_words`.
ChunkStep ==
    /\ c_pc = "loop"
    /\ LET total_words == Len(c_words)
           end == Min(c_start + c_size, total_words)
           start == c_start + Step(c_size, c_ov)
       IN  /\ c_chunks' = Append(c_chunks, Join(PySlice(c_words, c_start, end)))
           /\ c_ranges' = Append(c_ranges, <<c_start, end>>)
           /\ c_start' = start
           /\ c_pc' = IF end >= total_words \/ ~(start < total_words)
                      THEN "done" ELSE "loop"
    /\ UNCHANGED <<c_text, c_size, c_overlap, c_ov, c_words>>
    /\ UNCHANGED <<gvars, vvars, svars, wvars>>

InitChunk ==
    /\ c_pc = "call"
    /\ c_text \in Texts
    /\ c_size \in ChunkSizes
    /\ c_overlap \in Overlaps
    /\ ChunkFresh
    /\ GenIdle
    /\ ValConstructed
    /\ ScoreIdle
    /\ WindowsIdle

NextChunk == ChunkEnter \/ ChunkStep

SpecChunk == InitChunk /\ [][NextChunk]_vars

\* chunk_text runs to its end without waiting for anything: the step it is at
\* is taken.
FairSpecChunk == InitChunk /\ [][NextChunk]_vars /\ WF_vars(NextChunk)

(***************************************************************************)
(* Properties of the validator (SpecVal).                                  *)
(***************************************************************************)
RejectionCounters ==
    {"missing_keys", "invalid_length", "invalid_options", "invalid_answer",
     "factual_issues", "duplicates"}

RejectionSum(stats) ==
    stats.missing_keys + stats.invalid_length + stats.invalid_options
        + stats.invalid_answer + stats.factual_issues + stats.duplicates

\* The first of the checks schema, length, options, answer, content sanity
\* that the question fails, "none" when it passes the five.
FirstFailing(q) ==
    IF ~ValidateSchema(q) THEN "missing_keys"
    ELSE IF ~ValidateTextLength(q) THEN "invalid_length"
    ELSE IF ~ValidateAndFixOptions(q).ok THEN "invalid_options"
    ELSE IF ~ValidateAndFixAnswer(ValidateAndFixOptions(q).q).ok THEN "invalid_answer"
    ELSE IF ~CheckFactualIssues(ValidateAndFixAnswer(ValidateAndFixOptions(q).q).q)
         THEN "factual_issues"
    ELSE "none"

Handled == 1..Len(v_reasons)

\* C5: every item validate_questions retains has an options map with exactly
\* the keys A, B, C, D, its four values non-empty and pairwise distinct, and
\* an answer that is one of A, B, C, D and a key of the options map.
C5_ExactlyFourOptions ==
    \A i \in 1..Len(v_validated) :
       LET q == v_validated[i] IN
       /\ q.options.type = "dict"
       /\ DOMAIN q.options.val = RequiredOptions
       /\ \A k \in RequiredOptions : ~EmptyOption(q.options.val[k])
       /\ \A k1, k2 \in RequiredOptions : k1 # k2 => q.options.val[k1] # q.options.val[k2]
       /\ q.answer \in {<<k>> : k \in RequiredOptions}
       /\ q.answer[1] \in DOMAIN q.options.val

\* C6: in a pass on a fresh validator every rejected item has raised exactly
\* one of the six rejection counters, the one of the first check it fails in
\* the order schema, length, options, answer, content sanity, duplicate; so
\* the six counters add up to the number of rejected items, and at the end
\* of the pass to total_input - total_output.
C6_OneCounterPerRejection ==
    /\ \A c \in RejectionCounters :
          v_stats[c] = Cardinality({i \in Handled : v_reasons[i] = c})
    /\ RejectionSum(v_stats) = v_i - Len(v_validated)
    /\ \A i \in Handled :
          /\ v_reasons[i] \in RejectionCounters \cup {"ok"}
          /\ v_reasons[i] \in {"ok", "duplicates"} <=> FirstFailing(v_input[i]) = "none"
          /\ v_reasons[i] \notin {"ok", "duplicates"} => v_reasons[i] = FirstFailing(v_input[i])
    /\ v_pc = "done" =>
          /\ v_stats.total_input = Len(v_input)
          /\ v_stats.total_input - v_stats.total_output = RejectionSum(v_stats)

\* A finished pass that rejected two items for different reasons, one of them
\* an item that fails a later check too.
C6_Witness ==
    /\ v_pc = "done"
    /\ Len(v_reasons) = 2 /\ v_validated = <<>>
    /\ v_reasons[1] # v_reasons[2]
    /\ \E i \in Handled :
          /\ v_reasons[i] = "invalid_length"
          /\ ~ValidateAndFixOptions(v_input[i]).ok

\* C8: when two items of one pass pass the five checks before the duplicate
\* check and their question texts are equal after lowercasing, stripping
\* punctuation and collapsing white space, the second is rejected under the
\* duplicates counter, and the first is retained (when nothing before it in
\* the pass passed the five checks).
C8_NormalizedDuplicate ==
    \A i, j \in Handled :
       ( /\ i < j
         /\ FirstFailing(v_input[i]) = "none"
         /\ FirstFailing(v_input[j]) = "none"
         /\ NormalizeText(v_input[i].question) = NormalizeText(v_input[j].question) )
       => /\ v_reasons[j] = "duplicates"
          /\ v_stats.duplicates >= 1
          /\ v_reasons[i] \in {"ok", "duplicates"}
          /\ (\A h \in 1..(i - 1) : FirstFailing(v_input[h]) # "none") => v_reasons[i] = "ok"

\* "What is the capital of France?" retained, "what is the capital of france"
\* after it rejected as a duplicate.
C8_Witness ==
    /\ v_pc = "done"
    /\ Len(v_input) = 2
    /\ v_input[1].question = QBase /\ v_input[2].question = QCase
    /\ v_reasons = <<"ok", "duplicates">>
    /\ Len(v_validated) = 1 /\ v_validated[1].question = QBase
    /\ v_stats.duplicates = 1

(***************************************************************************)
(* Properties of the chunker (SpecChunk).                                  *)
(***************************************************************************)
\* The word indices (from 0) of the k-th window (from 0) of the sliding formula.
Window(k, chunk_size, overlap, n) ==
    {w \in 0..(n - 1) :
        /\ k * (chunk_size - overlap) <= w
        /\ w < Min(k * (chunk_size - overlap) + chunk_size, n)}

\* C7: for a text of N > chunk_size words and 0 <= overlap < chunk_size the
\* chunks returned are the windows of the sliding formula: chunk k is the
\* words k*(chunk_size-overlap) up to min(k*(chunk_size-overlap)+chunk_size, N);
\* there is more than one chunk, every word lies in a chunk, the last chunk
\* ends at word N, and adjacent chunks share exactly overlap words.
C7_SlidingWindows ==
    LET words == Split(c_text)
        n == Len(words)
        step == c_size - c_overlap
        count == Len(c_chunks)
    IN  (c_pc = "done" /\ n > c_size /\ 0 <= c_overlap /\ c_overlap < c_size) =>
          /\ count > 1
          /\ \A k \in 0..(count - 1) :
                /\ c_chunks[k + 1] =
                      Join(SubSeq(words, k * step + 1, Min(k * step + c_size, n)))
                /\ c_ranges[k + 1] = <<k * step, Min(k * step + c_size, n)>>
          /\ \A w \in 0..(n - 1) :
                \E k \in 0..(count - 1) : w \in Window(k, c_size, c_overlap, n)
          /\ Min((count - 1) * step + c_size, n) = n
          /\ \A k \in 0..(count - 2) :
                Cardinality(Window(k, c_size, c_overlap, n)
                              \cap Window(k + 1, c_size, c_overlap, n)) = c_overlap

\* A text cut into at least three chunks with a positive overlap, the last
\* chunk shorter than chunk_size.
C7_Witness ==
    /\ c_pc = "done"
    /\ Len(Split(c_text)) > c_size
    /\ 0 < c_overlap /\ c_overlap < c_size
    /\ Len(c_chunks) >= 3
    /\ c_ranges[Len(c_ranges)][2] - c_ranges[Len(c_ranges)][1] < c_size

(***************************************************************************)
(* Further properties of the generators (SpecGen).                         *)
(***************************************************************************)
\* C11: a call with an empty chunk list returns an empty list and statistics
\* that carry an error, issues no request and leaves failed_chunks,
\* total_api_calls and successful_calls as they were; a call with a non-empty
\* chunk list never returns that error, whichever of its requests fail.
C11_EmptyChunkList ==
    /\ [][(g_pc = "idle" /\ g_nchunks = 0) =>
             /\ g_pc' = "done"
             /\ g_ret' = <<>>
             /\ g_stats' = ErrorStats
             /\ g_tasks' = <<>> /\ g_log' = g_log
             /\ UNCHANGED <<g_failed, g_calls, g_succ>>]_vars
    /\ [](RunEnded => "error" \notin DOMAIN g_stats)

\* The error returned by a generator whose counters tell of an earlier run
\* with failed chunks.
C11_Witness ==
    /\ g_pc = "done" /\ g_nchunks = 0
    /\ g_ret = <<>> /\ g_stats = ErrorStats
    /\ g_calls > 0 /\ g_failed # <<>>

\* C12: a call with a non-empty chunk list and a target that is not positive
\* ends in an error: it raises, or the statistics it returns carry an error.
C12_NonPositiveTargetIsError ==
    (g_pc \in {"done", "raised"} /\ g_nchunks > 0 /\ g_total <= 0) =>
        \/ g_pc = "raised"
        \/ "error" \in DOMAIN g_stats

(***************************************************************************)
(* Further properties of the validator (SpecVal).                          *)
(***************************************************************************)
\* The question reaches the answer check: schema, length and options passed.
ReachesAnswer(q) ==
    ValidateSchema(q) /\ ValidateTextLength(q) /\ ValidateAndFixOptions(q).ok

\* The keys of the options whose text is the answer, letter case and white
\* space around it apart.
TextKeys(q) ==
    {k \in DOMAIN q.options.val :
        StrLower(Strip(q.options.val[k])) = StrLower(Strip(q.answer))}

\* The keys of the options whose text is the answer, character by character.
TextKeysStrict(q) == {k \in DOMAIN q.options.val : q.options.val[k] = q.answer}

\* The keys of the options whose similarity to the answer is at least 0.8.
FuzzyKeys(q) ==
    {k \in DOMAIN q.options.val : RatioAtLeast(q.options.val[k], q.answer, 8, 10)}

\* How the answer of q resolves when an equal text is an option of `textKeys`:
\* as a "key", by "text", by "fuzzy" match, or not at all ("none").
Resolution(q, textKeys) ==
    IF StrUpper(Strip(q.answer)) \in AnswerKeys THEN "key"
    ELSE IF textKeys # {} THEN "text"
    ELSE IF FuzzyKeys(q) # {} THEN "fuzzy"
    ELSE "none"

\* How each question handled so far resolves: "unreached" when it fails a
\* check before the one of the answer.
Resolutions ==
    [i \in Handled |->
        IF ReachesAnswer(v_input[i])
        THEN Resolution(ValidateAndFixOptions(v_input[i]).q,
                        TextKeys(ValidateAndFixOptions(v_input[i]).q))
        ELSE "unreached"]

\* C13, as stated: an answer that is no key resolves by text only when it
\* equals the text of an option, and an answer that resolves neither so nor by
\* fuzzy match is rejected.
C13_AsStated ==
    \A i \in Handled :
       LET q == ValidateAndFixOptions(v_input[i]).q IN
       (ReachesAnswer(v_input[i]) /\ Resolution(q, TextKeysStrict(q)) = "none")
           => v_reasons[i] = "invalid_answer"

\* C13: on an item with valid options, an answer that trimmed and upper-cased
\* is one of A, B, C, D becomes that key and auto_corrected stays; otherwise an
\* answer that equals the text of an option, letter case and surrounding white
\* space apart, becomes the key of that option and auto_corrected goes up by
\* one; otherwise an answer with similarity >= 0.8 to an option does the same;
\* otherwise the item is rejected under invalid_answer and auto_corrected stays.
C13_AnswerResolution ==
    \E how \in {Resolutions} :
        /\ \A i \in Handled :
              LET q == ValidateAndFixOptions(v_input[i]).q
                  out == v_questions[i].answer
              IN  how[i] # "unreached" =>
                    /\ how[i] = "key" => out = StrUpper(Strip(q.answer))
                    /\ how[i] = "text" => out \in {<<k>> : k \in TextKeys(q)}
                    /\ how[i] = "fuzzy" => out \in {<<k>> : k \in FuzzyKeys(q)}
                    /\ how[i] = "none" => out = q.answer
                    /\ how[i] = "none" <=> v_reasons[i] = "invalid_answer"
        /\ v_stats.auto_corrected = Cardinality({i \in Handled : how[i] \in {"text", "fuzzy"}})
        /\ v_stats.invalid_answer = Cardinality({i \in Handled : how[i] = "none"})

\* "b" resolved to B uncounted, then " berlin " resolved to C and counted.
C13_Witness ==
    /\ v_pc = "done" /\ Len(v_input) = 2
    /\ v_input[1].answer = <<"b">> /\ v_questions[1].answer = <<"B">>
    /\ v_input[2].answer = <<" ", "b", "e", "r", "l", "i", "n", " ">>
    /\ v_questions[2].answer = <<"C">>
    /\ v_stats.auto_corrected = 1 /\ v_stats.invalid_answer = 0

\* C14: a second validation of the same list by a new validator decides on
\* every item as the first did, and ends with the same six rejection counters.
C14_SameVerdictTwice ==
    v_first # NoPass =>
        /\ v_reasons = SubSeq(v_first.reasons, 1, v_i)
        /\ v_pc = "done" =>
              /\ v_reasons = v_first.reasons
              /\ Len(v_validated) = v_first.kept
              /\ \A c \in RejectionCounters : v_stats[c] = v_first.stats[c]
              /\ v_stats.total_input = v_first.stats.total_input
              /\ v_stats.total_output = v_first.stats.total_output

\* Two of the options of q have the same text.
TwoEqualOptions(q) ==
    \/ /\ q.options.type = "dict"
       /\ \E k1, k2 \in DOMAIN q.options.val :
             k1 # k2 /\ q.options.val[k1] = q.options.val[k2]
    \/ /\ q.options.type = "list"
       /\ \E n1, n2 \in 1..Len(q.options.elems) :
             n1 # n2 /\ q.options.elems[n1] = q.options.elems[n2]

\* C15: a question that passes the schema and length checks and has two equal
\* option values is rejected by the options check: invalid_options goes up by
\* one, no other counter changes, the question is not retained and its text
\* is not added to the corpus of seen questions.
C15_EqualOptionsRejected ==
    [][(/\ v_pc = "loop" /\ v_i < Len(v_questions)
        /\ ValidateSchema(v_questions[v_i + 1])
        /\ ValidateTextLength(v_questions[v_i + 1])
        /\ TwoEqualOptions(v_questions[v_i + 1]))
       => /\ v_stats' = [v_stats EXCEPT !.invalid_options = @ + 1]
          /\ v_reasons' = Append(v_reasons, "invalid_options")
          /\ v_seen' = v_seen
          /\ v_validated' = v_validated]_vars

\* A retained question, then one with A and B both "Paris", rejected by the
\* options check, the corpus still holding the text of the first only.
C15_Witness ==
    /\ v_pc = "done" /\ Len(v_input) = 2
    /\ v_input[1].question = QOther /\ v_input[2].question = QBase
    /\ TwoEqualOptions(v_input[2])
    /\ v_reasons = <<"ok", "invalid_options">>
    /\ v_seen = {NormalizeText(QOther)}
    /\ v_stats.invalid_options = 1 /\ RejectionSum(v_stats) = 1

(***************************************************************************)
(* The quality scorer.  The five sub-scores are counted in units of 1/600  *)
(* (every value the code can produce is a whole number of them), the       *)
(* rounded total in thousandths.                                           *)
(***************************************************************************)
\* The sub-score 1.0.
Full == 600

\* question.get(field, "")
GetText(q, field) == IF field \in DOMAIN q THEN q[field] ELSE <<>>

\* text.strip().endswith(c)
EndsWith(text, c) == Strip(text) # <<>> /\ Strip(text)[Len(Strip(text))] = c

\* A faulty variant: nothing is capped.
CapNone(score) == score

\* min(1.0, score)
Cap(score) == Min(Full, score)

\* The score of the length alone: 1.0 from 30 to 200 characters, length/30
\* below, 1 - min(excess/100, 1) above.
ClarityBase(length) ==
    IF 30 <= length /\ length <= 200 THEN Full
    ELSE IF length < 30 THEN 20 * length
    ELSE Max(0, Full - Min(6 * (length - 200), Full))

\* _score_question_clarity
ScoreQuestionClarity(q) ==
    LET q_text == GetText(q, "question")
        score == ClarityBase(Len(q_text))
    IN  IF EndsWith(q_text, "?") THEN Cap(score + 60) ELSE score

\* n*n times the variance of the n lengths: n * sum(l^2) - sum(l)^2.
RECURSIVE SumOf(_)
SumOf(s) == IF s = <<>> THEN 0 ELSE Head(s) + SumOf(Tail(s))

ScaledVariance(lengths) ==
    Len(lengths) * SumOf([i \in 1..Len(lengths) |-> lengths[i] * lengths[i]])
        - SumOf(lengths) * SumOf(lengths)

\* std_dev < bound, for n lengths
StdDevBelow(lengths, bound) ==
    ScaledVariance(lengths) < bound * bound * Len(lengths) * Len(lengths)

\* _score_balanced_options
ScoreBalancedOptions(q) ==
    LET options == IF "options" \in DOMAIN q THEN q.options ELSE PyDict(<<>>) IN
    IF options.type # "dict" THEN 0
    ELSE IF Cardinality(DOMAIN options.val) # 4 THEN 0
    ELSE LET keys == KeysInOrder(options.val)
             distinct == Cardinality({options.val[k] : k \in DOMAIN options.val})
             lengths == [i \in 1..Len(keys) |-> Len(options.val[keys[i]])]
             first == IF distinct = 4 THEN 300 ELSE 75 * distinct
             second == IF StdDevBelow(lengths, 10) THEN 300
                       ELSE IF StdDevBelow(lengths, 20) THEN 180
                       ELSE IF StdDevBelow(lengths, 30) THEN 60
                       ELSE 0
         IN  Cap(first + second)

\* `answer in options`, for options of the types the code may meet
AnswerInOptions(answer, options) ==
    CASE options.type = "dict" -> Len(answer) = 1 /\ answer[1] \in DOMAIN options.val
      [] options.type = "list" -> \E i \in 1..Len(options.elems) : options.elems[i] = answer
      [] options.type = "str"  ->
            \E i \in 0..(Len(options.chars) - Len(answer)) :
                SubSeq(options.chars, i + 1, i + Len(answer)) = answer
      [] OTHER -> FALSE

\* _score_valid_answer
ScoreValidAnswer(q) ==
    LET answer == GetText(q, "answer")
        options == IF "options" \in DOMAIN q THEN q.options ELSE PyDict(<<>>)
    IN  IF answer \in AnswerKeys /\ AnswerInOptions(answer, options) THEN Full ELSE 0

\* _score_explanation_quality
ScoreExplanationQuality(q) ==
    LET explanation == GetText(q, "explanation")
        length == Len(Strip(explanation))
        score == IF length >= 50 THEN Full
                 ELSE IF length >= 15 THEN 480
                 ELSE 20 * length
    IN  IF explanation = <<>> \/ Strip(explanation) = <<>> THEN 0
        ELSE IF EndsWith(explanation, ".") THEN Cap(score + 60)
        ELSE score

EasyMediumHard ==
    {<<"E", "a", "s", "y">>, <<"M", "e", "d", "i", "u", "m">>, <<"H", "a", "r", "d">>}

\* _score_metadata_quality
ScoreMetadataQuality(q) ==
    LET category == GetText(q, "category")
        difficulty == GetText(q, "difficulty")
    IN  (IF category # <<>> /\ Strip(category) # <<>> /\ Len(category) >= 3 THEN 300 ELSE 0)
        + (IF difficulty \in EasyMediumHard THEN 300 ELSE 0)

\* round(total_score, 3), in thousandths, of the weighted total sum * 0.2 of
\* the five sub-scores: sum / 3 thousandths, to the nearest.
RoundedTotal(sum) == (sum + 1) \div 3

\* score_question_quality
ScoreQuestionQuality(q) ==
    RoundedTotal(ScoreQuestionClarity(q) + ScoreBalancedOptions(q) + ScoreValidAnswer(q)
                 + ScoreExplanationQuality(q) + ScoreMetadataQuality(q))

(***************************************************************************)
(* The questions the scorer is run on.                                     *)
(***************************************************************************)
\* A text of n characters, the last of them `last`.
Filled(n, last) == [i \in 1..n |-> IF i = n THEN last ELSE "a"]

\* The dict without one of its fields.
Without(q, field) == [f \in DOMAIN q \ {field} |-> q[f]]

\* Three options of one character and one of n.
Unbalanced(n) == PyDict([A |-> <<"a">>, B |-> <<"b">>, C |-> <<"c">>, D |-> Filled(n, "d")])

\* A question of 30 characters, four distinct options of like lengths, a valid
\* answer, an explanation of 50 characters, a category of 3, a valid difficulty.
SItem ==
    [question |-> Filled(30, "e"), options |-> Cities, answer |-> <<"A">>,
     category |-> <<"G", "e", "o">>, difficulty |-> <<"E", "a", "s", "y">>,
     explanation |-> Filled(50, "e")]

SQuestions ==
    {<<>>, Filled(26, "?"), Filled(27, "?"), Filled(29, "e"), Filled(200, "e"),
     Filled(201, "e"), Filled(201, "?"), Filled(210, "?"), Filled(211, "?"),
     Filled(300, "e"), Filled(301, "e"), Filled(350, "?"), Filled(29, "?") \o <<" ">>}

SOptions ==
    {PyList(<<Paris, London, Berlin, Rome>>), PyStr(Paris),
     PyDict([A |-> Paris, B |-> London, C |-> Berlin, D |-> Rome, E |-> Madrid]),
     PyDict([A |-> Paris, B |-> London, C |-> Berlin]),
     PyDict([B |-> Paris, C |-> London, D |-> Berlin, E |-> Rome]),
     PyDict([A |-> Paris, B |-> Paris, C |-> Rome, D |-> Berlin]),
     PyDict([A |-> Paris, B |-> Paris, C |-> Paris, D |-> Paris]),
     Unbalanced(24), Unbalanced(25), Unbalanced(47), Unbalanced(48),
     Unbalanced(70), Unbalanced(71)}

SAnswers == {<<"D">>, <<"E">>, <<"a">>, <<>>, Paris}

SExplanations ==
    {<<>>, <<" ", " ">>, Filled(14, "."), Filled(14, "e"), Filled(15, "e"),
     Filled(49, "."), Filled(50, "."), <<" ">> \o Filled(49, "e") \o <<" ">>}

SCategories == {<<>>, <<" ", " ", " ">>, <<"a", "b">>, <<" ", "a", " ">>}

SDifficulties == {<<"e", "a", "s", "y">>, <<"M", "e", "d", "i", "u", "m">>, <<"H", "a", "r", "d">>, <<>>}

ScorePalette ==
    {SItem}
    \cup {[SItem EXCEPT !.question = x] : x \in SQuestions}
    \cup {[SItem EXCEPT !.options = x] : x \in SOptions}
    \cup {[SItem EXCEPT !.answer = x] : x \in SAnswers}
    \cup {[SItem EXCEPT !.explanation = x] : x \in SExplanations}
    \cup {[SItem EXCEPT !.category = x] : x \in SCategories}
    \cup {[SItem EXCEPT !.difficulty = x] : x \in SDifficulties}
    \cup {Without(SItem, f) : f \in DOMAIN SItem}
    \cup {[question |-> Filled(350, "e"), options |-> PyStr(Paris), answer |-> <<"E">>,
           category |-> <<>>, difficulty |-> <<>>, explanation |-> <<>>]}

\* The questions of the lists that are sorted: two of score 1.0, two of 0.9,
\* one of 0.8.
SortPalette ==
    {SItem, [SItem EXCEPT !.question = Filled(27, "?")],
     [SItem EXCEPT !.category = <<"a", "b">>],
     [SItem EXCEPT !.difficulty = <<"e", "a", "s", "y">>],
     [SItem EXCEPT !.question = <<>>]}

\* The lists score_all_questions is called with.
ScoreInputs ==
    {<<q>> : q \in ScorePalette} \cup UNION {[1..n -> SortPalette] : n \in 0..MaxScored}

(***************************************************************************)
(* score_all_questions                                                     *)
(***************************************************************************)
\* A faulty variant: the scored question is the score alone.
WithScoreOnly(q, score) == [quality_score |-> score]

\* question["quality_score"] = score
WithScore(q, score) ==
    [f \in DOMAIN q \cup {"quality_score"} |-> IF f = "quality_score" THEN score ELSE q[f]]

\* q.get("quality_score", 0.0)
ScoreOf(q) == IF "quality_score" \in DOMAIN q THEN q.quality_score ELSE 0

\* A faulty variant: a question goes before the placed questions of its score.
StaysBeforeStrict(placed, q) == ScoreOf(placed) > ScoreOf(q)

\* In the sorted list a question stays before each later question of the list
\* whose score is no higher: the sort is stable, reverse=True included.
StaysBefore(placed, q) == ScoreOf(placed) >= ScoreOf(q)

InsertByScore(sorted, q) ==
    LET k == Cardinality({i \in 1..Len(sorted) : StaysBefore(sorted[i], q)})
    IN  SubSeq(sorted, 1, k) \o <<q>> \o SubSeq(sorted, k + 1, Len(sorted))

\* questions.sort(key=lambda q: q.get("quality_score", 0.0), reverse=True)
RECURSIVE SortByScore(_)
SortByScore(qs) ==
    IF qs = <<>> THEN <<>>
    ELSE InsertByScore(SortByScore(SubSeq(qs, 1, Len(qs) - 1)), qs[Len(qs)])

\* One turn of `for question in questions`.
ScoreOne ==
    /\ s_pc = "score"
    /\ s_i < Len(s_questions)
    /\ s_questions' = [s_questions EXCEPT
                          ![s_i + 1] = WithScore(@, ScoreQuestionQuality(@))]
    /\ s_i' = s_i + 1
    /\ UNCHANGED <<s_pc, s_input, s_sort>>
    /\ UNCHANGED <<gvars, vvars, cvars, wvars>>

\* The loop is over: the list is sorted if asked, and returned.
ScoreReturn ==
    /\ s_pc = "score"
    /\ s_i = Len(s_questions)
    /\ s_questions' = IF s_sort THEN SortByScore(s_questions) ELSE s_questions
    /\ s_pc' = "done"
    /\ UNCHANGED <<s_input, s_sort, s_i>>
    /\ UNCHANGED <<gvars, vvars, cvars, wvars>>

InitScore ==
    /\ s_pc = "score"
    /\ s_input \in ScoreInputs
    /\ s_questions = s_input
    /\ s_sort \in BOOLEAN
    /\ s_i = 0
    /\ WindowsIdle
    /\ GenIdle
    /\ ValConstructed
    /\ ChunkIdle

\* score_all_questions is called again, on the list it returned.
ScoreAgain ==
    /\ s_pc = "done"
    /\ \A k \in 1..Len(s_input) : "quality_score" \notin DOMAIN s_input[k]
    /\ s_input' = s_questions
    /\ s_sort' \in BOOLEAN
    /\ s_i' = 0
    /\ s_pc' = "score"
    /\ UNCHANGED s_questions
    /\ UNCHANGED <<gvars, vvars, cvars, wvars>>

NextScore == ScoreOne \/ ScoreReturn \/ ScoreAgain

SpecScore == InitScore /\ [][NextScore]_vars

(***************************************************************************)
(* Claim C16                                                               *)
(***************************************************************************)
\* The question as it was before it was scored.
Unscored(q) == Without(q, "quality_score")

SubScores(q) ==
    {ScoreQuestionClarity(q), ScoreBalancedOptions(q), ScoreValidAnswer(q),
     ScoreExplanationQuality(q), ScoreMetadataQuality(q)}

\* Four distinct options of lengths with a standard deviation below 10, and an
\* answer that is one of their keys and in A-D.
WellFormedChoices(q) ==
    /\ {"options", "answer"} \subseteq DOMAIN q
    /\ q.options.type = "dict"
    /\ Cardinality(DOMAIN q.options.val) = 4
    /\ Cardinality({q.options.val[k] : k \in DOMAIN q.options.val}) = 4
    /\ LET keys == KeysInOrder(q.options.val)
       IN  StdDevBelow([i \in 1..Len(keys) |-> Len(q.options.val[keys[i]])], 10)
    /\ q.answer \in AnswerKeys
    /\ q.answer[1] \in DOMAIN q.options.val

\* The maximally well-formed item, its lengths counted on the texts as given.
WellFormedAsGiven(q) ==
    /\ WellFormedChoices(q)
    /\ Len(GetText(q, "question")) \in 30..200
    /\ Len(GetText(q, "explanation")) >= 50
    /\ Len(GetText(q, "category")) >= 3
    /\ GetText(q, "difficulty") \in EasyMediumHard

\* The maximally well-formed item, the explanation counted without the white
\* space around it and the category not blank.
WellFormed(q) ==
    /\ WellFormedAsGiven(q)
    /\ Len(Strip(GetText(q, "explanation"))) >= 50
    /\ Strip(GetText(q, "category")) # <<>>

ScoredQuestions == {i \in 1..Len(s_questions) : "quality_score" \in DOMAIN s_questions[i]}

ScoresInRange ==
    \A i \in ScoredQuestions :
        /\ s_questions[i].quality_score \in 0..1000
        /\ \A sub \in SubScores(Unscored(s_questions[i])) : sub \in 0..Full

\* C16, as stated: every score lies in [0.0, 1.0], every sub-score lies in
\* [0.0, 1.0], and an item with a question of 30-200 characters, 4 distinct
\* balanced options, an answer that is a key of them in A-D, an explanation of
\* at least 50 characters, a category of at least 3 characters and a valid
\* difficulty scores 1.0.
C16_AsStated ==
    /\ ScoresInRange
    /\ \A i \in ScoredQuestions :
           WellFormedAsGiven(Unscored(s_questions[i])) => s_questions[i].quality_score = 1000

\* C16: every score lies in [0.0, 1.0], every sub-score lies in [0.0, 1.0],
\* and an item scores 1.0 when its question has 30-200 characters, it has 4
\* distinct options of balanced lengths, its answer is a key of them in A-D,
\* its explanation has at least 50 characters without the white space around
\* it, its category has at least 3 characters and is not blank, and its
\* difficulty is Easy, Medium or Hard.
C16_ScoreBounds ==
    /\ ScoresInRange
    /\ \A i \in ScoredQuestions :
           WellFormed(Unscored(s_questions[i])) => s_questions[i].quality_score = 1000

\* A well-formed item whose explanation ends with a full stop was scored: the
\* bonus was capped and the item has 1.0; and so has an item that is not
\* well-formed.
C16_Witness ==
    /\ s_pc = "done"
    /\ \E i \in ScoredQuestions :
           /\ WellFormed(Unscored(s_questions[i]))
           /\ EndsWith(s_questions[i].explanation, ".")
           /\ s_questions[i].quality_score = 1000

(***************************************************************************)
(* chunk_text on a text given by its number of words: what the function    *)
(* does with the words depends on their number alone.                      *)
(***************************************************************************)
\* The head of chunk_text, down to the loop: no word, no chunk; at most
\* chunk_size words, the text itself.
WindowsEnter ==
    /\ w_pc = "call"
    /\ IF w_total = 0
       THEN /\ w_ranges' = <<>>
            /\ w_pc' = "done"
            /\ UNCHANGED w_ov
       ELSE /\ w_ov' = EffectiveOverlap(w_size, w_overlap)
            /\ IF w_total <= w_size
               THEN w_ranges' = <<<<0, w_total>>>> /\ w_pc' = "done"
               ELSE w_ranges' = <<>> /\ w_pc' = "loop"
    /\ UNCHANGED <<w_total, w_size, w_overlap, w_start>>
    /\ UNCHANGED <<gvars, vvars, cvars, svars>>

\* One turn of `while start < total_words`.
WindowsStep ==
    /\ w_pc = "loop"
    /\ LET end == Min(w_start + w_size, w_total)
           start == w_start + Step(w_size, w_ov)
       IN  /\ w_ranges' = Append(w_ranges, <<w_start, end>>)
           /\ w_start' = start
           /\ w_pc' = IF end >= w_total \/ ~(start < w_total) THEN "done" ELSE "loop"
    /\ UNCHANGED <<w_total, w_size, w_overlap, w_ov>>
    /\ UNCHANGED <<gvars, vvars, cvars, svars>>

\* Texts of up to 2500 words, in hundreds.
WordCounts == {100 * k : k \in 0..25}

InitWindows ==
    /\ w_pc = "call"
    /\ w_total \in WordCounts
    /\ w_size \in {500, 1000}
    /\ w_overlap \in {0, 100, 200, 1000}
    /\ w_ov = 0 /\ w_start = 0 /\ w_ranges = <<>>
    /\ GenIdle
    /\ ValConstructed
    /\ ChunkIdle
    /\ ScoreIdle

NextWindows == WindowsEnter \/ WindowsStep

SpecWindows == InitWindows /\ [][NextWindows]_vars

(***************************************************************************)
(* Claim C17                                                               *)
(***************************************************************************)
\* chunk_text returned for 2500 words, chunk_size 1000 and overlap 200.
WorkedExample ==
    w_pc = "done" /\ w_total = 2500 /\ w_size = 1000 /\ w_overlap = 200

SizesOf(ranges) == [k \in 1..Len(ranges) |-> ranges[k][2] - ranges[k][1]]

\* C17, as stated: 2500 words with chunk_size 1000 and overlap 200 give 4
\* chunks, the first three of 1000, 1000 and 500 words at [0,1000),
\* [800,1800) and [1600,2100).
C17_AsStated ==
    WorkedExample =>
        /\ Len(w_ranges) = 4
        /\ SubSeq(w_ranges, 1, 3) = <<<<0, 1000>>, <<800, 1800>>, <<1600, 2100>>>>
        /\ SubSeq(SizesOf(w_ranges), 1, 3) = <<1000, 1000, 500>>

\* C17: 2500 words with chunk_size 1000 and overlap 200 give 3 chunks, of
\* 1000, 1000 and 900 words, at [0,1000), [800,1800) and [1600,2500).
C17_WorkedExample ==
    WorkedExample =>
        /\ w_ranges = <<<<0, 1000>>, <<800, 1800>>, <<1600, 2500>>>>
        /\ SizesOf(w_ranges) = <<1000, 1000, 900>>

\* The call of the example has returned, after three turns of the loop.
C17_Witness == WorkedExample /\ w_start = 2400 /\ Len(w_ranges) = 3

(***************************************************************************)
(* Claim C18                                                               *)
(***************************************************************************)
\* C18: chunk_text returns no chunk exactly when the text has no word, being
\* empty or white space only; and for a text of 1 to chunk_size words it
\* returns one chunk, which is the text as it was passed.
C18_SmallTexts ==
    LET n == Len(Split(c_text)) IN
    c_pc = "done" =>
        /\ (c_chunks = <<>>) <=> (n = 0)
        /\ (n = 0) <=> (c_text = <<>> \/ \A i \in 1..Len(c_text) : IsSpace(c_text[i]))
        /\ (1 <= n /\ n <= c_size) => c_chunks = <<c_text>>

\* A text of exactly chunk_size words, more than one of them, that is not
\* single-spaced came back as it was.
C18_Witness ==
    /\ c_pc = "done"
    /\ Len(Split(c_text)) = c_size
    /\ c_size > 1
    /\ c_text # Join(Split(c_text))
    /\ c_chunks = <<c_text>>

(***************************************************************************)
(* Claim C19: questions at the edges of the length window                  *)
(***************************************************************************)
\* A question of n characters that ends with a question mark.
QOfLength(n) == [i \in 1..n |-> IF i = n THEN "?" ELSE "a"]

\* Questions of 19, 20, 300 and 301 characters, each in a valid item, in an
\* item whose answer is the text of an option, and in an item whose answer
\* matches no option.
LengthPalette ==
    UNION {{VItem(QOfLength(n)),
            [VItem(QOfLength(n)) EXCEPT !.answer = Berlin],
            [VItem(QOfLength(n)) EXCEPT !.answer = <<"T", "o", "k", "y", "o">>]}
           : n \in {19, 20, 300, 301}}
    \cup {VNoExplanation, Without(VItem(QOfLength(19)), "category")}

LengthInputs == UNION {[1..n -> LengthPalette] : n \in 0..MaxItems}

ValStartLengths == ValStartWith(LengthInputs)

NextValLengths == ValStartLengths \/ ValStep \/ ValFinish

SpecValLengths == InitVal /\ [][NextValLengths]_vars

\* Every check of validate_question but the one of the length passes.
OtherChecksPass(q, seen) ==
    /\ ValidateSchema(q)
    /\ ValidateAndFixOptions(q).ok
    /\ ValidateAndFixAnswer(ValidateAndFixOptions(q).q).ok
    /\ CheckFactualIssues(ValidateAndFixAnswer(ValidateAndFixOptions(q).q).q)
    /\ ~IsDuplicate(q.question, seen).dup

\* C19: an item that passes every other check is retained if and only if its
\* question has 20 to 300 characters; and an item with all its fields whose
\* question has fewer than 20 or more than 300 characters is rejected,
\* invalid_length goes up by 1, and nothing a later check does happens: no
\* other counter moves, the item is not changed and no question is recorded
\* as seen.
C19_LengthWindow ==
    [][(v_pc = "loop" /\ v_i' = v_i + 1) =>
          LET q == v_questions[v_i + 1]
              in_range == "question" \in DOMAIN q /\ Len(q.question) \in 20..300
              retained == v_validated' # v_validated
          IN  /\ OtherChecksPass(q, v_seen) => (retained <=> in_range)
              /\ (ValidateSchema(q) /\ ~in_range) =>
                    /\ ~retained
                    /\ v_reasons' = Append(v_reasons, "invalid_length")
                    /\ v_stats'.invalid_length = v_stats.invalid_length + 1
                    /\ \A c \in DOMAIN v_stats \ {"invalid_length"} : v_stats'[c] = v_stats[c]
                    /\ v_questions' = v_questions
                    /\ v_seen' = v_seen
    ]_vars

\* A question of 19 characters whose answer would have been corrected was
\* rejected untouched, and the question of 20 characters after it retained.
C19_Witness ==
    /\ v_pc = "done"
    /\ Len(v_input) = 2
    /\ Len(v_input[1].question) = 19 /\ v_input[1].answer = Berlin
    /\ Len(v_input[2].question) = 20
    /\ v_reasons = <<"invalid_length", "ok">>
    /\ v_questions[1] = v_input[1]
    /\ v_stats.invalid_length = 1 /\ v_stats.auto_corrected = 0
    /\ Len(v_validated) = 1

(***************************************************************************)
(* Claim C20                                                               *)
(***************************************************************************)
\* The question passed, with the score it is given.
Scored(q) == WithScore(q, ScoreQuestionQuality(q))

\* The ways of arranging n questions: place k of the output holds the
\* question passed at place p[k].
Arrangements(n) == {p \in [1..n -> 1..n] : \A k, l \in 1..n : p[k] = p[l] => k = l}

\* C20: score_all_questions returns the questions it was passed, each with
\* its score; with sort_by_quality the scores do not increase along the list
\* and questions of equal score stand in the order they were passed in;
\* without it the order is the one passed.
C20_StableDescending ==
    s_pc = "done" =>
        /\ Len(s_questions) = Len(s_input)
        /\ \E p \in Arrangements(Len(s_input)) :
              /\ \A k \in 1..Len(s_input) : s_questions[k] = Scored(s_input[p[k]])
              /\ s_sort =>
                    \A k, l \in 1..Len(s_input) :
                        k < l =>
                            /\ s_questions[k].quality_score >= s_questions[l].quality_score
                            /\ s_questions[k].quality_score = s_questions[l].quality_score
                                  => p[k] < p[l]
              /\ ~s_sort => \A k \in 1..Len(s_input) : p[k] = k

\* Three questions were sorted and are no longer in the order passed; two of
\* them have the same score and differ.
C20_Witness ==
    /\ s_pc = "done" /\ s_sort
    /\ Len(s_input) = 3
    /\ s_questions # [k \in 1..3 |-> Scored(s_input[k])]
    /\ \E k, l \in 1..3 :
          /\ k < l
          /\ s_questions[k].quality_score = s_questions[l].quality_score
          /\ s_questions[k] # s_questions[l]

(***************************************************************************)
(* Claim C21                                                               *)
(***************************************************************************)
\* The questions of qs are those of ps, in some order.
SameQuestions(ps, qs) ==
    /\ Len(ps) = Len(qs)
    /\ \E p \in Arrangements(Len(ps)) : \A k \in 1..Len(ps) : qs[k] = ps[p[k]]

\* C21: scoring changes nothing of a question but its quality_score: a turn
\* of the loop leaves every other question as it is and every field of the
\* question it scores but quality_score, which it adds or, on a question that
\* has one, sets to the value it had; the return reorders at most.
C21_OnlyScoreField ==
    [][/\ (s_pc = "score" /\ s_i' = s_i + 1) =>
            /\ Len(s_questions') = Len(s_questions)
            /\ \A k \in 1..Len(s_questions) : k # s_i + 1 => s_questions'[k] = s_questions[k]
            /\ LET before == s_questions[s_i + 1]
                   after == s_questions'[s_i + 1]
               IN  /\ DOMAIN after = DOMAIN before \cup {"quality_score"}
                   /\ \A f \in DOMAIN before \ {"quality_score"} : after[f] = before[f]
                   /\ "quality_score" \in DOMAIN before
                         => after.quality_score = before.quality_score
       /\ (s_pc = "score" /\ s_pc' = "done") => SameQuestions(s_questions, s_questions')
    ]_vars

\* A list of two scored questions of different scores was scored again and
\* came back as it was passed.
C21_Witness ==
    /\ s_pc = "done"
    /\ Len(s_input) = 2
    /\ \A k \in 1..2 : "quality_score" \in DOMAIN s_input[k]
    /\ s_input[1].quality_score # s_input[2].quality_score
    /\ s_questions = s_input

(***************************************************************************)
(* Claim C22                                                               *)
(***************************************************************************)
\* Difficulties as the service writes them: each key of valid_difficulties in
\* some case and with or without spaces around it, and texts that are no key.
DifficultyTexts ==
    { <<"e", "a", "s", "y">>,
      <<"M", "e", "d", "i", "u", "m">>,
      <<" ", "H", "A", "R", "D", " ">>,
      <<"I", "n", "t", "e", "r", "m", "e", "d", "i", "a", "t", "e">>,
      <<"D", "I", "F", "F", "I", "C", "U", "L", "T">>,
      <<" ", "s", "i", "m", "p", "l", "e">>,
      <<"B", "a", "s", "i", "c", " ">>,
      <<"A", "D", "V", "A", "N", "C", "E", "D">>,
      <<"C", "h", "a", "l", "l", "e", "n", "g", "i", "n", "g">>,
      <<"u", "n", "k", "n", "o", "w", "n">>,
      <<>>,
      <<"v", "e", "r", "y", " ", "h", "a", "r", "d">>,
      <<"e", " ", "a", " ", "s", " ", "y">> }

DifficultyPalette ==
    {[VItem(QBase) EXCEPT !.difficulty = d] : d \in DifficultyTexts}
    \cup {[VItem(QOther) EXCEPT !.difficulty = <<"u", "n", "k", "n", "o", "w", "n">>],
          [VItem(QOther) EXCEPT !.difficulty = <<" ", "H", "A", "R", "D", " ">>],
          [VItem(QShort) EXCEPT !.difficulty = <<"u", "n", "k", "n", "o", "w", "n">>]}

DifficultyInputs == UNION {[1..n -> DifficultyPalette] : n \in 0..MaxItems}

ValStartDifficulties == ValStartWith(DifficultyInputs)

NextValDifficulties == ValStartDifficulties \/ ValStep \/ ValFinish

SpecValDifficulties == InitVal /\ [][NextValDifficulties]_vars

Canonical == {<<"E", "a", "s", "y">>, <<"M", "e", "d", "i", "u", "m">>, <<"H", "a", "r", "d">>}

\* The canonical value of a difficulty text.
CanonicalOf(text) ==
    LET key == StrLower(Strip(text)) IN
    IF key \in DOMAIN ValidDifficulties THEN ValidDifficulties[key] ELSE Medium

\* C22: every retained item has a difficulty among Easy, Medium and Hard,
\* which is the canonical value of the text the item came with (that of its
\* key of valid_difficulties, case and surrounding space apart, and Medium
\* for any other text); the verdict on an item and the counters after it are
\* the same whatever its difficulty text.
C22_DifficultyNormalized ==
    [][(v_pc = "loop" /\ v_i' = v_i + 1) =>
         LET q == v_questions[v_i + 1]
             retained == Len(v_validated') = Len(v_validated) + 1
         IN  /\ \A k \in 1..Len(v_validated') : v_validated'[k].difficulty \in Canonical
             /\ retained =>
                  /\ v_validated'[Len(v_validated')].difficulty = CanonicalOf(q.difficulty)
                  /\ \A c \in RejectionCounters : v_stats'[c] = v_stats[c]
             /\ \A d \in DifficultyTexts :
                  \E r \in {ValidateOne([q EXCEPT !.difficulty = d], v_seen, v_stats)} :
                     r.ok = retained /\ r.stats = v_stats'
    ]_vars

\* A pass retained an item that came as Intermediate and then one that came
\* with a text that is no key.
C22_Witness ==
    /\ v_pc = "done"
    /\ Len(v_input) = 2 /\ Len(v_validated) = 2
    /\ v_input[1].difficulty = <<"I", "n", "t", "e", "r", "m", "e", "d", "i", "a", "t", "e">>
    /\ v_validated[1].difficulty = Medium
    /\ v_input[2].difficulty = <<"u", "n", "k", "n", "o", "w", "n">>
    /\ v_validated[2].difficulty = Medium
    /\ v_stats.total_output = 2

(***************************************************************************)
(* Claim C23                                                               *)
(***************************************************************************)
\* The chunks whose call was started, whose call returned items, and whose
\* call raised in its last attempt.
Started == {c \in DOMAIN g_log : g_log[c].n >= 1}

ReturnedItems == {c \in DOMAIN g_log : g_log[c].last = "items"}

RaisedLast == {c \in DOMAIN g_log : g_log[c].n = MaxRetries(g_mode) /\ g_log[c].last = "error"}

Occurrences(s, x) == Cardinality({i \in 1..Len(s) : s[i] = x})

\* C23: whatever the interleaving of the tasks of a batch, no update of the
\* shared counters is lost: at every instant successful_calls is the number of
\* calls that have returned items and failed_chunks holds each chunk whose
\* call raised in its last attempt once and no other; when the run ends
\* api_calls_total is the number of calls started and the statistics carry
\* these counts.
C23_NoLostUpdate ==
    g_mode = "optimized" =>
        /\ g_succ = Cardinality(ReturnedItems)
        /\ \A c \in DOMAIN g_log :
              Occurrences(g_failed, c) = IF c \in RaisedLast THEN 1 ELSE 0
        /\ RunEnded =>
              /\ g_stats.api_calls_total = Cardinality(Started)
              /\ g_stats.api_calls_successful = Cardinality(ReturnedItems)
              /\ g_stats.chunks_failed = Cardinality(RaisedLast)

\* Three calls ran in one batch, the call of chunk 2 failed before the one of
\* chunk 0 did, and the call of chunk 1 returned items.
C23_Witness ==
    /\ RunEnded /\ g_mode = "optimized"
    /\ g_failed = <<2, 0>>
    /\ g_stats.api_calls_total = 3
    /\ g_stats.api_calls_successful = 1

(***************************************************************************)
(* Claim C24: the plan of the optimized orchestrator, on chunk lists long  *)
(* enough for the selection to leave chunks out.                           *)
(***************************************************************************)
InitPlan ==
    /\ g_mode = "optimized"
    /\ g_nchunks \in 1..MaxPlanChunks
    /\ g_total \in 1..MaxPlanTotal
    /\ g_maxc \in ConcurrencyLimits
    /\ GenConstructed /\ ValConstructed /\ ChunkIdle /\ ScoreIdle /\ WindowsIdle

\* The runs that are followed beyond the plan: those of the short lists, and
\* those of the longest list with one permit and a target of one item, which
\* go through every selected chunk when no call returns an item.
RunFollowed ==
    \/ g_nchunks <= MaxChunks /\ g_total <= MaxTotal
    \/ g_nchunks = MaxPlanChunks /\ g_total = 1 /\ g_maxc = 1

NextPlan ==
    \/ OptStart
    \/ RunFollowed /\ \E k \in TaskSlots : TaskAcquire(k)
    \/ RunFollowed /\ \E k \in TaskSlots : TaskResponse(k)
    \/ RunFollowed /\ \E k \in TaskSlots : TaskWake(k)
    \/ RunFollowed /\ BatchDone

SpecPlan == InitPlan /\ [][NextPlan]_vars

\* The chunks generate_from_chunk has been called for: those the service has
\* answered for and those whose first request is out.
Called ==
    Started \cup {g_tasks[k].idx : k \in {j \in DOMAIN g_tasks : g_tasks[j].st = "call"}}

\* C24: for a chunk list of at least one chunk and a target of at least one
\* item, the per-chunk target is between 5 and 10, every call requests
\* min(target, total_items) items, only chunks among the leading
\* min(len(chunks), total_items // target + 10) are called for, and each of
\* them at most once.
C24_Plan ==
    (g_pc # "idle") =>
        /\ g_qpc \in 5..10
        /\ \E selected \in {Min(g_nchunks, (g_total \div g_qpc) + 10)} :
             /\ g_batch_data = [k \in 1..selected |->
                                   [idx |-> k - 1, need |-> Min(g_qpc, g_total)]]
             /\ \A k \in DOMAIN g_tasks :
                  /\ g_tasks[k].idx < selected
                  /\ g_tasks[k].need = Min(g_qpc, g_total)
                  /\ g_tasks[k].st = "waiting" => g_tasks[k].idx \notin Called
                  /\ \A j \in DOMAIN g_tasks : g_tasks[j].idx = g_tasks[k].idx => j = k
             /\ \A c \in Called : c < selected
             /\ g_calls = Cardinality(Called)

\* Of the longest chunk list ten chunks were selected; the calls for all ten came back without
\* an item and the run ended with the last two chunks never called for.
C24_Witness ==
    /\ g_pc = "done" /\ g_nchunks = MaxPlanChunks /\ g_total = 1
    /\ g_qpc = 5
    /\ Len(g_batch_data) = 10
    /\ g_stats.api_calls_total = 10
    /\ Started = 0..9
    /\ g_ret = <<>>

(***************************************************************************)
(* Claim C25                                                               *)
(***************************************************************************)
\* chunk_text returns, for every text, chunk_size >= 1 and overlap.
C25_Terminates == (c_pc = "call") ~> (c_pc = "done")

\* Every turn of the loop moves the window start on by at least one word.
C25_Advances == [][c_pc = "loop" => c_start' >= c_start + 1]_vars

\* The last window of a finished loop ends at the last word.
C25_EndsAtLastWord ==
    (c_pc = "done" /\ c_ranges # <<>>) => c_ranges[Len(c_ranges)][2] = Len(c_words)

\* C25 (as stated): chunk_text terminates for every text, every chunk_size >= 1
\* and every integer overlap; the window start advances by at least one word
\* per turn, and the loop ends at the first window whose end reaches the last
\* word.
C25_AsStated == C25_Terminates /\ C25_Advances /\ []C25_EndsAtLastWord

(***************************************************************************)
(* Claim C26                                                               *)
(***************************************************************************)
NormalizedOf(items) == {NormalizeText(items[k].question) : k \in 1..Len(items)}

\* C26: at every point of a pass the corpus is the set of the normalized
\* texts of the items retained so far in that pass, one text per item (so no
\* rejected item has entered it, and nothing of an earlier pass is left in
\* it), and no retained item has a normalized text of ratio >= 0.85 to that of
\* an item retained before it in the pass.
C26_CorpusIsAccepted ==
    /\ v_seen = NormalizedOf(v_validated)
    /\ Cardinality(v_seen) = Len(v_validated)
    /\ \A k \in 1..Len(v_validated) : \A j \in 1..(k - 1) :
         ~RatioAtLeast(NormalizeText(v_validated[k].question),
                       NormalizeText(v_validated[j].question), 85, 100)

\* In the second pass of a validator, on the list of the first, the item the
\* first pass retained is retained again, its text is the whole corpus, and the
\* near-duplicate of it is rejected again.
C26_Witness ==
    /\ v_first # NoPass /\ v_first.kept = 1
    /\ v_first.reasons = <<"ok", "duplicates">>
    /\ Len(v_validated) = 1
    /\ v_seen = {NormalizeText(v_validated[1].question)}
    /\ Len(v_reasons) = 2 /\ v_reasons[2] = "duplicates"
    /\ v_input[2].question # v_input[1].question

(***************************************************************************)
(* Claim C27                                                               *)
(***************************************************************************)
\* The lists the calls of the run returned, one after the other in ascending
\* chunk index (the empty list for a chunk no call was issued for).
InIndexOrder == Flatten([k \in 1..g_nchunks |-> g_log[k - 1].items])

\* C27: the list the optimized orchestrator returns is the concatenation, in
\* ascending chunk index, of the lists its calls returned, cut to total_items,
\* in whatever order the calls completed: it is a function of the service's
\* answers alone.
C27_IndexOrder ==
    (RunEnded /\ g_mode = "optimized") =>
        /\ g_all = InIndexOrder
        /\ g_ret = PySliceTo(InIndexOrder, g_total)

\* The call for chunk 1 returned its item before the call for chunk 0
\* returned its own, and the list returned has the item of chunk 0 first.
C27_Witness ==
    /\ RunEnded /\ g_mode = "optimized" /\ g_total = 2
    /\ g_nchunks >= 2
    /\ g_log[1].rank = 0 /\ g_log[0].rank = 1
    /\ Len(g_log[0].items) = 1
    /\ g_ret = g_log[0].items \o SubSeq(g_log[1].items, 1, 1)

(***************************************************************************)
(* Claim C28                                                               *)
(***************************************************************************)
\* The call has got past its reset of the counters: the chunk list is not empty.
InRun == g_pc # "idle" /\ g_nchunks > 0

\* The number of chunks the run may call for: chunks_needed in the optimized
\* orchestrator, all of them in the sequential one.
SelectedChunks ==
    IF g_mode = "optimized" THEN Min(g_nchunks, (g_total \div g_qpc) + 10) ELSE g_nchunks

\* C28: at every point of a run, in either orchestrator, successful_calls +
\* len(failed_chunks) <= total_api_calls <= the number of selected chunks, no
\* chunk index occurs twice in failed_chunks, and no chunk whose call was
\* counted as successful is in failed_chunks.
C28_CounterOrder ==
    InRun =>
        /\ g_succ + Len(g_failed) <= g_calls
        /\ g_calls <= SelectedChunks
        /\ \A c \in DOMAIN g_log : Occurrences(g_failed, c) <= 1
        /\ \A c \in ReturnedItems : c \notin RangeOf(g_failed)
        /\ g_succ = Cardinality(ReturnedItems)
        /\ g_pc = "done" =>
              /\ g_stats.api_calls_successful + g_stats.chunks_failed <= g_stats.api_calls_total
              /\ g_stats.api_calls_total <= SelectedChunks

\* A sequential run called for each of three chunks: one call returned items
\* after a raised attempt, the two others raised to the end.
C28_Witness ==
    /\ g_pc = "done" /\ g_mode = "sequential" /\ g_nchunks = 3
    /\ g_calls = 3 /\ g_succ = 1 /\ Len(g_failed) = 2
    /\ \E c \in ReturnedItems : g_log[c].n = 2

(***************************************************************************)
(* Claim C29                                                               *)
(***************************************************************************)
\* C29 (as stated): a new validator given the list validate_questions
\* returned retains every item, in the same order and with every field as it
\* was, and ends with its six rejection counters and auto_corrected at 0.
C29_Idempotent ==
    (v_pc = "done" /\ v_first # NoPass) =>
        /\ v_validated = v_input
        /\ RejectionSum(v_stats) = 0
        /\ v_stats.auto_corrected = 0

(***************************************************************************)
(* Claim C30                                                               *)
(***************************************************************************)
\* C30 (as stated): after any pass of a validator, its first or a later one,
\* the statistics are those of that pass: total_input - total_output is the
\* sum of the six rejection counters, and the duplicates counted are the
\* items of that pass rejected as duplicates of items of that pass.
C30_LatestPassOnly ==
    v_pc = "done" =>
        /\ v_stats.total_input - v_stats.total_output = RejectionSum(v_stats)
        /\ v_stats.duplicates = Cardinality({k \in Handled : v_reasons[k] = "duplicates"})

====
